---- MODULE Spec2Model ----
(***************************************************************************)
(* The parsing-and-validation engine of args.hxx: ArgumentParser::ParseArgs *)
(* over a tree of declared nodes (flags, value flags, positionals, groups). *)
(* A std::string is a sequence of one-character strings; a token sequence   *)
(* is a sequence of such strings; iterators are 1-based indices, end being  *)
(* Len(args) + 1.                                                           *)
(***************************************************************************)
EXTENDS Integers, Sequences, FiniteSets, TLC

VARIABLES
    declared,    \* which declarations the host program constructed
    tree,        \* the declared nodes, indexed by identity (Root is the parser)
    nodes,       \* per node: matched, ready, value, values, count
    longprefix, shortprefix, longseparator, terminator,
    allowJoinedShortValue, allowJoinedLongValue,
    allowSeparateShortValue, allowSeparateLongValue,
    args,        \* the token sequence of the running/last ParseArgs call
    it,          \* ParseArgs' iterator into args
    terminated,  \* ParseArgs' local flag
    pc,          \* "idle", "scan", "done", "kicked", "error"
    error,       \* the exception that left ParseArgs, "none" if none
    ret,         \* the iterator ParseArgs returned, 0 if it did not return
    calls,       \* how many ParseArgs calls the parser object has been given
    previous     \* the parsers that kicked out before this one, as they were left

vars == <<declared, tree, nodes, longprefix, shortprefix, longseparator, terminator,
          allowJoinedShortValue, allowJoinedLongValue,
          allowSeparateShortValue, allowSeparateLongValue,
          args, it, terminated, pc, error, ret, calls, previous>>

config == <<longprefix, shortprefix, longseparator, terminator,
            allowJoinedShortValue, allowJoinedLongValue,
            allowSeparateShortValue, allowSeparateLongValue>>

\* Longest token sequence handed to ParseArgs.
MaxArgs == 3

\* Most ParseArgs calls given to one parser object.
MaxCalls == 2

----------------------------------------------------------------------------
\* std::string operations used by ParseArgs

npos == -1

\* s.find(sub): the 0-based index of the first occurrence, or npos
find(s, sub) ==
    LET hits == {i \in 0..(Len(s) - Len(sub)) : SubSeq(s, i + 1, i + Len(sub)) = sub}
    IN  IF hits = {} THEN npos ELSE CHOOSE i \in hits : \A j \in hits : i <= j

\* s.substr(pos)
substr(s, pos) == SubSeq(s, pos + 1, Len(s))

\* std::string(s, 0, n)
head(s, n) == SubSeq(s, 1, n)

----------------------------------------------------------------------------
\* Declarations: what the constructors of the node classes record

Decl(kind, shortFlags, longFlags, children, validatorName, map, defaultValue) ==
    [kind |-> kind, shortFlags |-> shortFlags, longFlags |-> longFlags,
     children |-> children, validator |-> validatorName,
     kickout |-> FALSE, extraError |-> FALSE,
     map |-> map, defaultValue |-> defaultValue, startcount |-> 0,
     T |-> "std::string"]

Group(children, validatorName) ==
    Decl("Group", {}, {}, children, validatorName, <<>>, <<>>)

ArgumentParser(children) == Group(children, "AllChildGroups")

Flag(shortFlags, longFlags) ==
    Decl("Flag", shortFlags, longFlags, <<>>, "", <<>>, <<>>)

ValueFlag(shortFlags, longFlags) ==
    Decl("ValueFlag", shortFlags, longFlags, <<>>, "", <<>>, <<>>)

Positional == Decl("Positional", {}, {}, <<>>, "", <<>>, <<>>)

PositionalList == Decl("PositionalList", {}, {}, <<>>, "", <<>>, <<>>)

MapPositional(map, defaultValue) ==
    Decl("MapPositional", {}, {}, <<>>, "", map, defaultValue)

MapFlag(shortFlags, longFlags, map, defaultValue) ==
    Decl("MapFlag", shortFlags, longFlags, <<>>, "", map, defaultValue)

MapFlagList(shortFlags, longFlags, map) ==
    Decl("MapFlagList", shortFlags, longFlags, <<>>, "", map, <<>>)

MapPositionalList(map) ==
    Decl("MapPositionalList", {}, {}, <<>>, "", map, <<>>)

HelpFlag(shortFlags, longFlags) ==
    Decl("HelpFlag", shortFlags, longFlags, <<>>, "", <<>>, <<>>)

CounterFlag(shortFlags, longFlags, startcount) ==
    [Decl("CounterFlag", shortFlags, longFlags, <<>>, "", <<>>, <<>>)
        EXCEPT !.startcount = startcount]

ValueFlagList(shortFlags, longFlags) ==
    Decl("ValueFlagList", shortFlags, longFlags, <<>>, "", <<>>, <<>>)

\* the template argument T = int of a value-accepting node, with the
\* constructor argument defaultValue
OfInt(decl, defaultValue) == [decl EXCEPT !.T = "int", !.defaultValue = defaultValue]

\* the constructor argument extraError = true of a flag
extraError(decl) == [decl EXCEPT !.extraError = TRUE]

\* NamedBase::KickOut(true) on a declared node
KickOut(decl) == [decl EXCEPT !.kickout = TRUE]

\* long flag names and the map of the map-backed nodes
foo == <<"f", "o", "o">>
bar == <<"b", "a", "r">>
ColourMap == (<<"a">> :> "red") @@ (<<"b">> :> "green")
green == <<"g", "r", "e", "e", "n">>
MappingEnum == (foo :> "foo") @@ (bar :> "bar") @@ (green :> "green")

\* two flags and one positional
TreeFlags ==
    << ArgumentParser(<<2, 3, 4>>),
       Flag({"f"}, {foo}),
       Flag({"b"}, {bar}),
       Positional >>

\* a value flag, a flag and a positional list
TreeValue ==
    << ArgumentParser(<<2, 3, 4>>),
       ValueFlag({"f"}, {foo}),
       Flag({"b"}, {bar}),
       PositionalList >>

\* positionals inside and after a nested group
TreeNestedPos ==
    << ArgumentParser(<<2, 5, 6>>),
       Group(<<3, 4>>, "DontCare"),
       Positional,
       MapPositional(ColourMap, "def"),
       Positional,
       Flag({"f"}, {}) >>

\* a positional list declared before another positional
TreeList ==
    << ArgumentParser(<<2, 3, 4>>),
       Positional,
       PositionalList,
       Positional >>

\* one group of three flags directly under the parser
GroupTree(validatorName) ==
    << ArgumentParser(<<2>>),
       Group(<<3, 4, 5>>, validatorName),
       Flag({"a"}, {}),
       Flag({"b"}, {}),
       Flag({"c"}, {}) >>

Validators ==
    {"Xor", "AtLeastOne", "AtMostOne", "All", "AllOrNone", "DontCare", "CareTooMuch"}

\* two groups directly under the parser
TreeGroups2 ==
    << ArgumentParser(<<2, 5>>),
       Group(<<3, 4>>, "Xor"),
       Flag({"a"}, {}),
       Flag({"b"}, {}),
       Group(<<6, 7>>, "AllOrNone"),
       Flag({"d"}, {}),
       Flag({"e"}, {}) >>

\* groups nested in a group (the tree of "Argument groups should nest")
TreeNested ==
    << ArgumentParser(<<2>>),
       Group(<<3, 4, 7>>, "Xor"),
       Flag({"a"}, {}),
       Group(<<5, 6>>, "AllOrNone"),
       Flag({"d"}, {}),
       Flag({"e"}, {}),
       Group(<<8>>, "AtLeastOne"),
       Flag({"g"}, {}) >>

\* a parser object given several calls: flags at two depths, one of them
\* kicking out, and a value flag
TreeReuseFlags ==
    << ArgumentParser(<<2, 3>>),
       Flag({"f"}, {foo}),
       Group(<<4, 5>>, "DontCare"),
       KickOut(Flag({"g"}, {})),
       ValueFlag({"v"}, {}) >>

\* a parser object given several calls: a flag and a value flag that may
\* be passed once, and a flag that may be passed again
TreeExtra ==
    << ArgumentParser(<<2, 3, 4>>),
       extraError(Flag({"f"}, {foo})),
       extraError(ValueFlag({"b"}, {bar})),
       Flag({"x"}, {}) >>

\* a parser object given several calls: two positionals
TreeReusePos ==
    << ArgumentParser(<<2, 3>>),
       Positional,
       Positional >>

\* a parser object given several calls: a positional and a positional list
TreeReuseList ==
    << ArgumentParser(<<2, 3>>),
       Positional,
       PositionalList >>

\* a first parser whose flag foo kicks out, before a positional sub
TreeKickFoo ==
    << ArgumentParser(<<2, 3, 4>>),
       KickOut(Flag({"f"}, {foo})),
       Flag({"b"}, {bar}),
       MapPositional(MappingEnum, "default") >>

\* a first parser whose positional sub kicks out
TreeKickSub ==
    << ArgumentParser(<<2, 3, 4>>),
       Flag({"f"}, {foo}),
       Flag({"b"}, {bar}),
       KickOut(MapPositional(MappingEnum, "default")) >>

\* the parser given what either of them left
TreeKickB ==
    << ArgumentParser(<<2, 3>>),
       Flag({"f"}, {foo}),
       Flag({"b"}, {bar}) >>

\* three parsers in a row: a flag kicks out of the first, a value flag out
\* of the second, the third runs to the end
TreeChain1 ==
    << ArgumentParser(<<2, 3, 4>>),
       Flag({"a"}, {}),
       Flag({"b"}, {}),
       KickOut(Flag({"f"}, {foo})) >>

TreeChain2 ==
    << ArgumentParser(<<2, 3, 4>>),
       Flag({"a"}, {}),
       Flag({"b"}, {}),
       KickOut(ValueFlag({"B"}, {bar})) >>

TreeChain3 ==
    << ArgumentParser(<<2, 3>>),
       Flag({"a"}, {}),
       Flag({"b"}, {}) >>

\* a positional that kicks out beside a group that wants both its flags
TreeKickGroup ==
    << ArgumentParser(<<2, 5>>),
       Group(<<3, 4>>, "All"),
       Flag({"a"}, {}),
       Flag({"b"}, {}),
       KickOut(Positional) >>

\* a flag that kicks out, a value flag and a positional
TreeRun ==
    << ArgumentParser(<<2, 3, 4>>),
       KickOut(Flag({"k"}, {})),
       ValueFlag({"v"}, {<<"v">>}),
       Positional >>

\* a help flag beside a flag and a group that wants its value flag
TreeHelp ==
    << ArgumentParser(<<2, 3, 4>>),
       Flag({"f"}, {foo}),
       HelpFlag({"h"}, {<<"h", "e", "l", "p">>}),
       Group(<<5>>, "All"),
       ValueFlag({"v"}, {}) >>

\* counters, one of them starting at 7, and a list of values
TreeCounter ==
    << ArgumentParser(<<2, 3, 4>>),
       CounterFlag({"f"}, {foo}, 0),
       CounterFlag({"z"}, {}, 7),
       ValueFlagList({"l"}, {bar}) >>

\* flags that share a character or a long name, at two depths, below a
\* group whose validator never passes
TreeShared ==
    << ArgumentParser(<<2, 3, 6>>),
       Flag({"a"}, {foo}),
       Group(<<4, 5>>, "CareTooMuch"),
       Flag({"b"}, {bar}),
       Flag({"a"}, {bar}),
       Flag({"b"}, {foo}) >>

\* two value flags with declared defaults, a flag and a positional, for
\* tokens that hold the long separator more than once or at their end
TreeSplit ==
    << ArgumentParser(<<2, 3, 4, 5>>),
       [ValueFlag({}, {bar}) EXCEPT !.defaultValue = <<"d">>],
       [ValueFlag({}, {foo}) EXCEPT !.defaultValue = <<"d">>],
       Flag({}, {<<"b">>}),
       Positional >>

\* a group that wants exactly one of its flags: a flag that may be passed
\* once, a help flag, a map-backed flag and a plain flag
TreeSignals ==
    << ArgumentParser(<<2>>),
       Group(<<3, 4, 5, 6>>, "Xor"),
       extraError(Flag({"f"}, {})),
       HelpFlag({"h"}, {}),
       MapFlag({"m"}, {}, ColourMap, "default"),
       Flag({"x"}, {}) >>

\* nodes that read an int through the default Reader, each constructed with
\* the default 7, before a map-backed positional
TreeInt ==
    << ArgumentParser(<<2, 3, 4, 5>>),
       OfInt(ValueFlag({"i"}, {foo}), 7),
       OfInt(ValueFlagList({"l"}, {}), <<>>),
       OfInt(Positional, 7),
       MapPositional(ColourMap, "default") >>

\* a dd-style parser: a value flag, a flag that also has a character, and a
\* positional
TreeDD ==
    << ArgumentParser(<<2, 3, 4>>),
       ValueFlag({}, {<<"i", "f">>}),
       Flag({"b"}, {<<"b">>}),
       Positional >>

\* one node of each map-backed class over the same map
TreeMaps ==
    << ArgumentParser(<<2, 3, 4, 5>>),
       MapFlag({"m"}, {<<"m", "f">>}, ColourMap, "default"),
       MapFlagList({"l"}, {}, ColourMap),
       MapPositional(ColourMap, "default"),
       MapPositionalList(ColourMap) >>

TreeNames ==
    {"TreeFlags", "TreeValue", "TreeNestedPos", "TreeList", "TreeGroups2", "TreeNested",
     "TreeMaps", "TreeHelp", "TreeCounter", "TreeShared", "TreeSplit",
     "TreeSignals"}
    \cup Validators

ReuseTreeNames == {"TreeReuseFlags", "TreeReusePos", "TreeReuseList", "TreeExtra"}

\* the parsers that take part in a kick-out, and the first of each row
KickTreeNames ==
    {"TreeKickFoo", "TreeKickSub", "TreeKickB", "TreeChain1", "TreeChain2", "TreeChain3",
     "TreeKickGroup", "TreeRun"}

KickFirstNames == {"TreeKickFoo", "TreeKickSub", "TreeChain1", "TreeKickGroup"}

\* the parser the host hands the rest of the tokens to, "" if it has none
NextParser ==
    [name \in KickTreeNames |->
        CASE name \in {"TreeKickFoo", "TreeKickSub"} -> "TreeKickB"
          [] name = "TreeChain1" -> "TreeChain2"
          [] name = "TreeChain2" -> "TreeChain3"
          [] OTHER -> ""]

AllTreeNames == TreeNames \cup ReuseTreeNames \cup KickTreeNames \cup {"TreeInt", "TreeDD"}

Trees ==
    [name \in AllTreeNames |->
        CASE name = "TreeFlags"     -> TreeFlags
          [] name = "TreeMaps"      -> TreeMaps
          [] name = "TreeHelp"      -> TreeHelp
          [] name = "TreeCounter"   -> TreeCounter
          [] name = "TreeShared"    -> TreeShared
          [] name = "TreeSplit"     -> TreeSplit
          [] name = "TreeSignals"   -> TreeSignals
          [] name = "TreeInt"       -> TreeInt
          [] name = "TreeDD"        -> TreeDD
          [] name = "TreeKickFoo"   -> TreeKickFoo
          [] name = "TreeKickSub"   -> TreeKickSub
          [] name = "TreeKickB"     -> TreeKickB
          [] name = "TreeChain1"    -> TreeChain1
          [] name = "TreeChain2"    -> TreeChain2
          [] name = "TreeChain3"    -> TreeChain3
          [] name = "TreeKickGroup" -> TreeKickGroup
          [] name = "TreeRun"       -> TreeRun
          [] name = "TreeReuseFlags" -> TreeReuseFlags
          [] name = "TreeExtra"      -> TreeExtra
          [] name = "TreeReusePos"   -> TreeReusePos
          [] name = "TreeReuseList"  -> TreeReuseList
          [] name = "TreeValue"     -> TreeValue
          [] name = "TreeNestedPos" -> TreeNestedPos
          [] name = "TreeList"      -> TreeList
          [] name = "TreeGroups2"   -> TreeGroups2
          [] name = "TreeNested"    -> TreeNested
          [] OTHER                  -> GroupTree(name)]

\* The tokens offered to a parser over each tree
Tokens ==
    [name \in AllTreeNames |->
        CASE name \in {"TreeKickFoo", "TreeKickSub", "TreeKickB"} ->
               { <<"-", "-">> \o foo, <<"-", "-">> \o bar, green, <<"x">> }
          [] name \in {"TreeChain1", "TreeChain2", "TreeChain3"} ->
               { <<"-", "a">>, <<"-", "a", "b">>, <<"-", "-">> \o foo, <<"-", "f", "a">>,
                 <<"-", "-">> \o bar, <<"-", "-">> \o bar \o <<"=", "a">>,
                 <<"-", "B", "a">>, <<"-", "B">> }
          [] name = "TreeKickGroup" ->
               { <<"-", "a">>, <<"-", "b">>, <<"x">>, <<"-", "-">> }
          [] name = "TreeRun" ->
               { <<"-", "k">>, <<"-", "v">>, <<"-", "-", "v">>, <<"-", "-">>, <<"x">> }
          [] name = "TreeHelp" ->
               { <<"-", "f">>, <<"-", "f", "h", "x">>, <<"-", "h">>, <<"-", "v", "h">>,
                 <<"-", "-", "h", "e", "l", "p">>, <<"-", "-", "h", "e", "l", "p", "=", "a">>,
                 <<"-", "x">>, <<"-", "v">>, <<"-", "-">> }
          [] name = "TreeCounter" ->
               { <<"-", "f">>, <<"-", "f", "f">>, <<"-", "-">> \o foo, <<"-", "f", "l", "a">>,
                 <<"-", "l">>, <<"-", "-">> \o bar \o <<"=", "b">>, <<"-", "-">> \o bar,
                 <<"-", "x">> }
          [] name = "TreeShared" ->
               { <<"-", "a">>, <<"-", "b">>, <<"-", "b", "a">>, <<"-", "-">> \o foo,
                 <<"-", "-">> \o bar }
          [] name = "TreeSplit" ->
               { <<"-", "-">> \o bar \o <<"=", "a", "=", "b">>, <<"-", "-">> \o bar \o <<"=">>,
                 <<"-", "-">> \o foo \o <<"=", "=">>, <<"-", "-">> \o foo \o <<"=">>,
                 <<"-", "-", "b", "=", "a">>, <<"-", "-", "b", "a", "=", "r">>, <<"a">> }
          [] name = "TreeSignals" ->
               { <<"-", "f">>, <<"-", "x", "f">>, <<"-", "h">>, <<"-", "m", "z">>,
                 <<"-", "m", "a">>, <<"-", "x">>, <<"-", "q">> }
          [] name = "TreeInt" ->
               { <<"2">>, <<"1", "x">>, <<"x">>, <<"a">>, <<"z">>,
                 <<"-", "i", "1", "x">>, <<"-", "i", "2">>,
                 <<"-", "l", "1", "x">>, <<"-", "l", "2">>,
                 <<"-", "-">> \o foo \o <<"=", "2", "x">>, <<"-", "-">> }
          [] name = "TreeDD" ->
               { <<"i", "f", "=", "a">>, <<"i", "f">>, <<"b">>, <<"-", "b">>, <<"x">>,
                 <<"-", "-">>, <<>> }
          [] name = "TreeMaps" ->
               { <<"-", "m", "a">>, <<"-", "-", "m", "f", "=", "z">>, <<"-", "l", "b">>,
                 <<"-", "l">>, <<"a">>, <<"b">>, <<"z">> }
          [] name = "TreeExtra" ->
               { <<"-", "-">> \o foo, <<"-", "f", "x">>, <<"-", "b", "a">>,
                 <<"-", "-">> \o bar \o <<"=", "b">>, <<"-", "x", "x">> }
          [] name = "TreeReuseFlags" ->
               { <<"-", "-">> \o foo, <<"-", "g">>, <<"-", "v", "a">>, <<"-", "v", "b">>,
                 <<"-", "x">> }
          [] name = "TreeReusePos" ->
               { <<"a">>, <<"b">>, <<"-", "-">> }
          [] name = "TreeReuseList" ->
               { <<"a">>, <<"b">> }
          [] name = "TreeFlags" ->
               { <<"-", "f">>, <<"-", "f", "b">>, <<"-", "b", "x", "f">>,
                 <<"-", "-">> \o foo, <<"-", "-", "f", "o", "b">>,
                 <<"-", "-">> \o bar \o <<"=", "f">>, <<"f", "b">> }
          [] name = "TreeValue" ->
               { <<"-", "f", "b">>, <<"-", "f">>, <<"-", "b", "f">>, <<"-", "b", "f", "b">>,
                 <<"-", "-">> \o foo \o <<"=", "b">>, <<"-", "-">> \o foo,
                 <<"-", "-">>, <<"b">>, <<"-", "-">> \o bar, <<"-">> }
          [] name = "TreeNestedPos" ->
               { <<"a">>, <<"b">>, <<"z">>, <<"-", "f">> }
          [] name = "TreeList" ->
               { <<"a">>, <<"b">>, <<"-", "-">>, <<"-", "-", "a">> }
          [] name = "TreeGroups2" ->
               { <<"-", "a">>, <<"-", "b">>, <<"-", "d">>, <<"-", "e">> }
          [] name = "TreeNested" ->
               { <<"-", "a">>, <<"-", "d">>, <<"-", "e">>, <<"-", "g">>, <<"-", "d", "e">> }
          [] OTHER ->
               { <<"-", "a">>, <<"-", "b">>, <<"-", "c">>, <<"-", "a", "b">> }]

----------------------------------------------------------------------------
\* The declaration hierarchy

Root == 1
nullptr == 0

IsFlagBase(n) ==
    tree[n].kind \in {"Flag", "HelpFlag", "CounterFlag",
                      "ValueFlag", "ValueFlagList", "MapFlag", "MapFlagList"}

IsValueFlagBase(n) ==
    tree[n].kind \in {"ValueFlag", "ValueFlagList", "MapFlag", "MapFlagList"}

IsPositionalBase(n) ==
    tree[n].kind \in {"Positional", "PositionalList", "MapPositional", "MapPositionalList"}

IsGroup(n) == tree[n].kind = "Group"

\* Matcher::Match(char) and Matcher::Match(const std::string &)
MatcherMatch(n, flag, isShort) ==
    IF isShort THEN flag \in tree[n].shortFlags ELSE flag \in tree[n].longFlags

\* variant: extraError is ignored
FlagBaseMatch_Again(ns, n, flag, isShort) ==
    IF MatcherMatch(n, flag, isShort)
    THEN [base |-> n, thrown |-> "none",
          nodes |-> [ns EXCEPT ![n].matched = TRUE]]
    ELSE [base |-> nullptr, thrown |-> "none", nodes |-> ns]

\* FlagBase::Match: the result is the returned pointer, the exception thrown
\* (if any) and the nodes as the call left them.
FlagBaseMatch(ns, n, flag, isShort) ==
    IF MatcherMatch(n, flag, isShort)
    THEN IF tree[n].extraError /\ ns[n].matched
         THEN [base |-> nullptr, thrown |-> "ExtraError", nodes |-> ns]
         ELSE [base |-> n, thrown |-> "none",
               nodes |-> [ns EXCEPT ![n].matched = TRUE]]
    ELSE [base |-> nullptr, thrown |-> "none", nodes |-> ns]

\* variant: a help flag that is matched like any flag
HelpFlagMatch_Silent(ns, n, flag, isShort) == FlagBaseMatch(ns, n, flag, isShort)

\* HelpFlag::Match
HelpFlagMatch(ns, n, flag, isShort) ==
    LET r == FlagBaseMatch(ns, n, flag, isShort)
    IN  IF r.base # nullptr
        THEN [base |-> nullptr, thrown |-> "Help", nodes |-> r.nodes]
        ELSE r

\* variant: a counter that counts its first match of the call only
CounterFlagMatch_Once(ns, n, flag, isShort) ==
    LET r == FlagBaseMatch(ns, n, flag, isShort)
    IN  IF r.base # nullptr /\ ~ns[n].matched
        THEN [r EXCEPT !.nodes = [r.nodes EXCEPT ![n].count = @ + 1]]
        ELSE r

\* CounterFlag::Match
CounterFlagMatch(ns, n, flag, isShort) ==
    LET r == FlagBaseMatch(ns, n, flag, isShort)
    IN  IF r.base # nullptr
        THEN [r EXCEPT !.nodes = [r.nodes EXCEPT ![n].count = @ + 1]]
        ELSE r

\* the virtual call flagBase->Match(flag)
VirtualMatch(ns, n, flag, isShort) ==
    CASE tree[n].kind = "HelpFlag"    -> HelpFlagMatch(ns, n, flag, isShort)
      [] tree[n].kind = "CounterFlag" -> CounterFlagMatch(ns, n, flag, isShort)
      [] OTHER                        -> FlagBaseMatch(ns, n, flag, isShort)

\* variant: the search does not descend into nested groups
RECURSIVE GroupMatchFrom_Flat(_, _, _, _, _)
GroupMatchFrom_Flat(ns, g, i, flag, isShort) ==
    IF i > Len(tree[g].children)
    THEN [base |-> nullptr, thrown |-> "none", nodes |-> ns]
    ELSE LET child == tree[g].children[i]
         IN  IF IsFlagBase(child)
             THEN LET r == VirtualMatch(ns, child, flag, isShort)
                  IN  IF r.thrown # "none" \/ r.base # nullptr
                      THEN r
                      ELSE GroupMatchFrom_Flat(r.nodes, g, i + 1, flag, isShort)
             ELSE GroupMatchFrom_Flat(ns, g, i + 1, flag, isShort)

\* Group::Match, its loop over children starting at child i
RECURSIVE GroupMatchFrom(_, _, _, _, _)
GroupMatchFrom(ns, g, i, flag, isShort) ==
    IF i > Len(tree[g].children)
    THEN [base |-> nullptr, thrown |-> "none", nodes |-> ns]
    ELSE LET child == tree[g].children[i]
         IN  IF IsFlagBase(child)
             THEN LET r == VirtualMatch(ns, child, flag, isShort)
                  IN  IF r.thrown # "none" \/ r.base # nullptr
                      THEN r
                      ELSE GroupMatchFrom(r.nodes, g, i + 1, flag, isShort)
             ELSE IF IsGroup(child)
             THEN LET r == GroupMatchFrom(ns, child, 1, flag, isShort)
                  IN  IF r.thrown # "none" \/ r.base # nullptr
                      THEN r
                      ELSE GroupMatchFrom(r.nodes, g, i + 1, flag, isShort)
             ELSE GroupMatchFrom(ns, g, i + 1, flag, isShort)

GroupMatch(ns, g, flag, isShort) == GroupMatchFrom(ns, g, 1, flag, isShort)

\* Group::GetNextPositional, its loop over children starting at child i
RECURSIVE GetNextPositionalFrom(_, _, _)
GetNextPositionalFrom(ns, g, i) ==
    IF i > Len(tree[g].children)
    THEN nullptr
    ELSE LET child == tree[g].children[i]
             next  == IF IsGroup(child) THEN GetNextPositionalFrom(ns, child, 1)
                      ELSE IF IsPositionalBase(child) THEN child
                      ELSE nullptr
         IN  IF next # nullptr /\ ns[next].ready
             THEN next
             ELSE GetNextPositionalFrom(ns, g, i + 1)

GetNextPositional(ns, g) == GetNextPositionalFrom(ns, g, 1)

\* Base::Matched / Group::Matched, and the validators it calls
RECURSIVE Matched(_, _)

RECURSIVE MatchedChildrenFrom(_, _, _)
MatchedChildrenFrom(ns, g, i) ==
    IF i > Len(tree[g].children)
    THEN 0
    ELSE (IF Matched(ns, tree[g].children[i]) THEN 1 ELSE 0)
         + MatchedChildrenFrom(ns, g, i + 1)

MatchedChildren(ns, g) == MatchedChildrenFrom(ns, g, 1)

\* variant: Xor accepting more than one matched child
Xor_AtLeastOne(ns, g) == MatchedChildren(ns, g) >= 1

Xor(ns, g) == MatchedChildren(ns, g) = 1

AtLeastOne(ns, g) == MatchedChildren(ns, g) >= 1

AtMostOne(ns, g) == MatchedChildren(ns, g) <= 1

All(ns, g) == Len(tree[g].children) = MatchedChildren(ns, g)

None(ns, g) == MatchedChildren(ns, g) = 0

AllOrNone(ns, g) == All(ns, g) \/ None(ns, g)

RECURSIVE AllChildGroupsFrom(_, _, _)
AllChildGroupsFrom(ns, g, i) ==
    IF i > Len(tree[g].children)
    THEN TRUE
    ELSE LET child == tree[g].children[i]
         IN  IF IsGroup(child) /\ ~Matched(ns, child)
             THEN FALSE
             ELSE AllChildGroupsFrom(ns, g, i + 1)

\* variant: the root asks every group of the tree, at any depth
AllChildGroups_Deep(ns, g) ==
    \A c \in DOMAIN tree : (IsGroup(c) /\ c # g) => Matched(ns, c)

AllChildGroups(ns, g) == AllChildGroupsFrom(ns, g, 1)

DontCare(ns, g) == TRUE

CareTooMuch(ns, g) == FALSE

\* the call validator(*this)
validator(ns, g) ==
    CASE tree[g].validator = "Xor"            -> Xor(ns, g)
      [] tree[g].validator = "AtLeastOne"     -> AtLeastOne(ns, g)
      [] tree[g].validator = "AtMostOne"      -> AtMostOne(ns, g)
      [] tree[g].validator = "All"            -> All(ns, g)
      [] tree[g].validator = "AllOrNone"      -> AllOrNone(ns, g)
      [] tree[g].validator = "AllChildGroups" -> AllChildGroups(ns, g)
      [] tree[g].validator = "DontCare"       -> DontCare(ns, g)
      [] tree[g].validator = "CareTooMuch"    -> CareTooMuch(ns, g)
      [] tree[g].validator = "None"           -> None(ns, g)

\* variant: a group counts as matched when a flag below it, at any depth, is
RECURSIVE Matched_ByDescendants(_, _)
Matched_ByDescendants(ns, n) ==
    IF IsGroup(n)
    THEN \E k \in 1..Len(tree[n].children) : Matched_ByDescendants(ns, tree[n].children[k])
    ELSE ns[n].matched

Matched(ns, n) == IF IsGroup(n) THEN validator(ns, n) ELSE ns[n].matched

\* variant: the reset reaches the children of the parser only, not the
\* nodes inside its groups
RECURSIVE ResetMatchedFrom_Shallow(_, _, _)
ResetMatchedFrom_Shallow(ns, g, i) ==
    IF i > Len(tree[g].children)
    THEN ns
    ELSE LET child == tree[g].children[i]
             ns1   == IF IsGroup(child) THEN ns
                      ELSE [ns EXCEPT ![child].matched = FALSE]
         IN  ResetMatchedFrom_Shallow(ns1, g, i + 1)

\* variant: the reset puts the declared default back as well
RECURSIVE ResetMatchedFrom_Values(_, _, _)
ResetMatchedFrom_Values(ns, g, i) ==
    IF i > Len(tree[g].children)
    THEN ns
    ELSE LET child == tree[g].children[i]
             ns1   == IF IsGroup(child) THEN ResetMatchedFrom_Values(ns, child, 1)
                      ELSE [ns EXCEPT ![child].matched = FALSE,
                                      ![child].value = tree[child].defaultValue]
         IN  ResetMatchedFrom_Values(ns1, g, i + 1)

\* Base::ResetMatched / Group::ResetMatched
RECURSIVE ResetMatchedFrom(_, _, _)
ResetMatchedFrom(ns, g, i) ==
    IF i > Len(tree[g].children)
    THEN ns
    ELSE LET child == tree[g].children[i]
             ns1   == IF IsGroup(child) THEN ResetMatchedFrom(ns, child, 1)
                      ELSE [ns EXCEPT ![child].matched = FALSE]
         IN  ResetMatchedFrom(ns1, g, i + 1)

ResetMatched(ns, g) == ResetMatchedFrom(ns, g, 1)

----------------------------------------------------------------------------
\* Value conversion

\* ValueReader<std::string>: destination.assign(value)
ValueReader(text, destination) == [thrown |-> "none", destination |-> text]

\* ValueReader<int>: ss >> destination reads the longest run of digits at
\* the head of the text into the destination, 0 if there is none (the
\* rule of C++11 for a failed extraction), and only then the characters
\* left over make it throw.  The texts here hold no white space, no sign
\* and at most three digits, so neither skipping nor overflow occurs.
ValueReaderT(text, destination) ==
    LET Digit == ("0" :> 0) @@ ("1" :> 1) @@ ("2" :> 2)
        run   == {k \in 0..Len(text) : \A j \in 1..k : text[j] \in DOMAIN Digit}
        k     == CHOOSE m \in run : \A j \in run : j <= m
        RECURSIVE value(_)
        value(j) == IF j = 0 THEN 0 ELSE 10 * value(j - 1) + Digit[text[j]]
    IN  [thrown |-> IF k < Len(text) THEN "ParseError" ELSE "none",
         destination |-> value(k)]

\* the template argument Reader of node n, by default ValueReader<T>
Reader(n, text, destination) ==
    IF tree[n].T = "int" THEN ValueReaderT(text, destination)
    ELSE ValueReader(text, destination)

\* The ParseValue of every value-accepting node
ValueFlagParseValue(ns, n, text) ==
    LET r == Reader(n, text, ns[n].value)
    IN  [thrown |-> r.thrown, nodes |-> [ns EXCEPT ![n].value = r.destination]]

\* variant: the list holds the last value only
ValueFlagListParseValue_Last(ns, n, text) ==
    LET r == Reader(n, text, <<>>)
    IN  IF r.thrown # "none"
        THEN [thrown |-> r.thrown, nodes |-> ns]
        ELSE [thrown |-> "none",
              nodes |-> [ns EXCEPT ![n].values = <<r.destination>>]]

ValueFlagListParseValue(ns, n, text) ==
    LET r == Reader(n, text, <<>>)
    IN  IF r.thrown # "none"
        THEN [thrown |-> r.thrown, nodes |-> ns]
        ELSE [thrown |-> "none",
              nodes |-> [ns EXCEPT ![n].values = Append(@, r.destination)]]

\* variant: a key the map lacks is reported as a plain ParseError
MapFlagParseValue_ParseError(ns, n, text) ==
    LET r == Reader(n, text, <<>>)
    IN  IF r.thrown # "none"
        THEN [thrown |-> r.thrown, nodes |-> ns]
        ELSE IF r.destination \notin DOMAIN tree[n].map
        THEN [thrown |-> "ParseError", nodes |-> ns]
        ELSE [thrown |-> "none",
              nodes |-> [ns EXCEPT ![n].value = tree[n].map[r.destination]]]

MapFlagParseValue(ns, n, text) ==
    LET r == Reader(n, text, <<>>)
    IN  IF r.thrown # "none"
        THEN [thrown |-> r.thrown, nodes |-> ns]
        ELSE IF r.destination \notin DOMAIN tree[n].map
        THEN [thrown |-> "MapError", nodes |-> ns]
        ELSE [thrown |-> "none",
              nodes |-> [ns EXCEPT ![n].value = tree[n].map[r.destination]]]

MapFlagListParseValue(ns, n, text) ==
    LET r == Reader(n, text, <<>>)
    IN  IF r.thrown # "none"
        THEN [thrown |-> r.thrown, nodes |-> ns]
        ELSE IF r.destination \notin DOMAIN tree[n].map
        THEN [thrown |-> "MapError", nodes |-> ns]
        ELSE [thrown |-> "none",
              nodes |-> [ns EXCEPT ![n].values = Append(@, tree[n].map[r.destination])]]

\* variant: a Positional that stays ready after its value
PositionalParseValue_StaysReady(ns, n, text) ==
    LET r == Reader(n, text, ns[n].value)
    IN  IF r.thrown # "none"
        THEN [thrown |-> r.thrown, nodes |-> [ns EXCEPT ![n].value = r.destination]]
        ELSE [thrown |-> "none",
              nodes |-> [ns EXCEPT ![n].value = r.destination,
                                   ![n].matched = TRUE]]

PositionalParseValue(ns, n, text) ==
    LET r == Reader(n, text, ns[n].value)
    IN  IF r.thrown # "none"
        THEN [thrown |-> r.thrown, nodes |-> [ns EXCEPT ![n].value = r.destination]]
        ELSE [thrown |-> "none",
              nodes |-> [ns EXCEPT ![n].value = r.destination,
                                   ![n].ready = FALSE,
                                   ![n].matched = TRUE]]

\* variant: a PositionalList that takes one value only
PositionalListParseValue_Once(ns, n, text) ==
    LET r == Reader(n, text, <<>>)
    IN  IF r.thrown # "none"
        THEN [thrown |-> r.thrown, nodes |-> ns]
        ELSE [thrown |-> "none",
              nodes |-> [ns EXCEPT ![n].values = Append(@, r.destination),
                                   ![n].ready = FALSE,
                                   ![n].matched = TRUE]]

PositionalListParseValue(ns, n, text) ==
    LET r == Reader(n, text, <<>>)
    IN  IF r.thrown # "none"
        THEN [thrown |-> r.thrown, nodes |-> ns]
        ELSE [thrown |-> "none",
              nodes |-> [ns EXCEPT ![n].values = Append(@, r.destination),
                                   ![n].matched = TRUE]]

MapPositionalParseValue(ns, n, text) ==
    LET r == Reader(n, text, <<>>)
    IN  IF r.thrown # "none"
        THEN [thrown |-> r.thrown, nodes |-> ns]
        ELSE IF r.destination \notin DOMAIN tree[n].map
        THEN [thrown |-> "MapError", nodes |-> ns]
        ELSE [thrown |-> "none",
              nodes |-> [ns EXCEPT ![n].value = tree[n].map[r.destination],
                                   ![n].ready = FALSE,
                                   ![n].matched = TRUE]]

MapPositionalListParseValue(ns, n, text) ==
    LET r == Reader(n, text, <<>>)
    IN  IF r.thrown # "none"
        THEN [thrown |-> r.thrown, nodes |-> ns]
        ELSE IF r.destination \notin DOMAIN tree[n].map
        THEN [thrown |-> "MapError", nodes |-> ns]
        ELSE [thrown |-> "none",
              nodes |-> [ns EXCEPT ![n].values = Append(@, tree[n].map[r.destination]),
                                   ![n].matched = TRUE]]

\* the virtual call argbase->ParseValue(value) / pos->ParseValue(chunk)
ParseValue(ns, n, text) ==
    CASE tree[n].kind = "ValueFlag"         -> ValueFlagParseValue(ns, n, text)
      [] tree[n].kind = "ValueFlagList"     -> ValueFlagListParseValue(ns, n, text)
      [] tree[n].kind = "MapFlag"           -> MapFlagParseValue(ns, n, text)
      [] tree[n].kind = "MapFlagList"       -> MapFlagListParseValue(ns, n, text)
      [] tree[n].kind = "Positional"        -> PositionalParseValue(ns, n, text)
      [] tree[n].kind = "PositionalList"    -> PositionalListParseValue(ns, n, text)
      [] tree[n].kind = "MapPositional"     -> MapPositionalParseValue(ns, n, text)
      [] tree[n].kind = "MapPositionalList" -> MapPositionalListParseValue(ns, n, text)

----------------------------------------------------------------------------
\* ArgumentParser::ParseArgs: the body of its loop over the chunks.  Each
\* operator yields how one iteration leaves the call: the nodes, the
\* iterator, and whether the loop goes on ("scan"), an exception left the
\* call ("error") or the call returned early ("kicked").

\* variant: a throw takes back the matches of the call
Throw_RollsBack(ns, i, exception) ==
    [nodes |-> ResetMatched(ns, Root), it |-> i, pc |-> "error", error |-> exception,
     ret |-> 0]

\* variant: a throw out of the loop has the groups validated first
Throw_Validated(ns, i, exception) ==
    [nodes |-> ns, it |-> i, pc |-> "error",
     error |-> IF Matched(ns, Root) THEN exception ELSE "ValidationError", ret |-> 0]

\* throw: the iterator stays where the failing statement left it
Throw(ns, i, exception) ==
    [nodes |-> ns, it |-> i, pc |-> "error", error |-> exception, ret |-> 0]

\* variant: the for statement does not advance the iterator
Continue_Stays(ns, i) ==
    [nodes |-> ns, it |-> i, pc |-> "scan", error |-> "none", ret |-> 0]

\* the iteration ends and the for statement runs its ++it
Continue(ns, i) ==
    [nodes |-> ns, it |-> i + 1, pc |-> "scan", error |-> "none", ret |-> 0]

\* variant: return it, the position of the token that kicked out
ReturnNext_Same(ns, i) ==
    [nodes |-> ns, it |-> i, pc |-> "kicked", error |-> "none", ret |-> i]

\* return ++it
ReturnNext(ns, i) ==
    [nodes |-> ns, it |-> i + 1, pc |-> "kicked", error |-> "none", ret |-> i + 1]

end == Len(args) + 1

chunk == args[it]

\* the conditions of the if / else if chain
IsTerminator == ~terminated /\ chunk = terminator

\* variant: an empty long prefix marks no token
IsLongFlag_NeedsPrefix ==
    /\ ~IsTerminator
    /\ ~terminated
    /\ longprefix # <<>>
    /\ find(chunk, longprefix) = 0
    /\ Len(chunk) > Len(longprefix)

\* variant: a long prefix is recognised after the terminator as well
IsLongFlag_AfterTerminator ==
    /\ ~IsTerminator
    /\ find(chunk, longprefix) = 0
    /\ Len(chunk) > Len(longprefix)

IsLongFlag ==
    /\ ~IsTerminator
    /\ ~terminated
    /\ find(chunk, longprefix) = 0
    /\ Len(chunk) > Len(longprefix)

\* variant: the short prefix alone is a cluster of no characters
IsShortFlag_PrefixAlone ==
    /\ ~IsTerminator
    /\ ~IsLongFlag
    /\ ~terminated
    /\ find(chunk, shortprefix) = 0
    /\ Len(chunk) >= Len(shortprefix)

IsShortFlag ==
    /\ ~IsTerminator
    /\ ~IsLongFlag
    /\ ~terminated
    /\ find(chunk, shortprefix) = 0
    /\ Len(chunk) > Len(shortprefix)

IsPositional == ~IsTerminator /\ ~IsLongFlag /\ ~IsShortFlag

\* variant: a flag that kicks out is not left matched
LongKickOut_Unmatched(ns, base, i) ==
    IF tree[base].kickout
    THEN ReturnNext([ns EXCEPT ![base].matched = FALSE], i)
    ELSE Continue(ns, i)

\* base->KickOut() after a matched long flag
LongKickOut(ns, base, i) ==
    IF tree[base].kickout THEN ReturnNext(ns, i) ELSE Continue(ns, i)

\* variant: the joined form also takes the token that follows
LongValueFlag_JoinedTakesNext(ns, base, i, argchunk, separator) ==
    IF separator # npos
    THEN IF allowJoinedLongValue
         THEN LET v == ParseValue(ns, base, substr(argchunk, separator + Len(longseparator)))
              IN  IF v.thrown # "none" THEN Throw(v.nodes, i, v.thrown)
                  ELSE IF i + 1 = end THEN LongKickOut(v.nodes, base, i)
                  ELSE LongKickOut(v.nodes, base, i + 1)
         ELSE Throw(ns, i, "ParseError")
    ELSE IF i + 1 = end THEN Throw(ns, i + 1, "ParseError")
    ELSE IF allowSeparateLongValue
         THEN LET v == ParseValue(ns, base, args[i + 1])
              IN  IF v.thrown # "none" THEN Throw(v.nodes, i + 1, v.thrown)
                  ELSE LongKickOut(v.nodes, base, i + 1)
         ELSE Throw(ns, i + 1, "ParseError")

\* variant: a value flag at the end of the tokens goes without a value
LongValueFlag_EndAccepted(ns, base, i, argchunk, separator) ==
    IF separator # npos
    THEN IF allowJoinedLongValue
         THEN LET v == ParseValue(ns, base, substr(argchunk, separator + Len(longseparator)))
              IN  IF v.thrown # "none" THEN Throw(v.nodes, i, v.thrown)
                  ELSE LongKickOut(v.nodes, base, i)
         ELSE Throw(ns, i, "ParseError")
    ELSE IF i + 1 = end THEN LongKickOut(ns, base, i)
    ELSE IF allowSeparateLongValue
         THEN LET v == ParseValue(ns, base, args[i + 1])
              IN  IF v.thrown # "none" THEN Throw(v.nodes, i + 1, v.thrown)
                  ELSE LongKickOut(v.nodes, base, i + 1)
         ELSE Throw(ns, i + 1, "ParseError")

\* variant: a token that is the terminator or starts with a prefix is not
\* taken as a separate value
LongValueFlag_FlagLikeRefused(ns, base, i, argchunk, separator) ==
    IF separator # npos
    THEN IF allowJoinedLongValue
         THEN LET v == ParseValue(ns, base, substr(argchunk, separator + Len(longseparator)))
              IN  IF v.thrown # "none" THEN Throw(v.nodes, i, v.thrown)
                  ELSE LongKickOut(v.nodes, base, i)
         ELSE Throw(ns, i, "ParseError")
    ELSE IF i + 1 = end THEN Throw(ns, i + 1, "ParseError")
    ELSE IF args[i + 1] = terminator \/ find(args[i + 1], shortprefix) = 0
         THEN Throw(ns, i + 1, "ParseError")
    ELSE IF allowSeparateLongValue
         THEN LET v == ParseValue(ns, base, args[i + 1])
              IN  IF v.thrown # "none" THEN Throw(v.nodes, i + 1, v.thrown)
                  ELSE LongKickOut(v.nodes, base, i + 1)
         ELSE Throw(ns, i + 1, "ParseError")

\* a long flag that matched a ValueFlagBase: its joined or separate value
LongValueFlag(ns, base, i, argchunk, separator) ==
    IF separator # npos
    THEN IF allowJoinedLongValue
         THEN LET v == ParseValue(ns, base, substr(argchunk, separator + Len(longseparator)))
              IN  IF v.thrown # "none" THEN Throw(v.nodes, i, v.thrown)
                  ELSE LongKickOut(v.nodes, base, i)
         ELSE Throw(ns, i, "ParseError")
    ELSE IF i + 1 = end THEN Throw(ns, i + 1, "ParseError")
    ELSE IF allowSeparateLongValue
         THEN LET v == ParseValue(ns, base, args[i + 1])
              IN  IF v.thrown # "none" THEN Throw(v.nodes, i + 1, v.thrown)
                  ELSE LongKickOut(v.nodes, base, i + 1)
         ELSE Throw(ns, i + 1, "ParseError")

\* no flag of the tree matched the long name
UnmatchedLongFlag(ns, i) == Throw(ns, i, "ParseError")

\* variant: a text joined to a flag that takes no value is dropped
LongFlagBody_InlineDropped(ns, i) ==
    LET argchunk  == substr(args[i], Len(longprefix))
        separator == IF longseparator = <<>> THEN npos ELSE find(argchunk, longseparator)
        arg       == IF separator # npos THEN head(argchunk, separator) ELSE argchunk
        m         == GroupMatch(ns, Root, arg, FALSE)
    IN  IF m.thrown # "none" THEN Throw(m.nodes, i, m.thrown)
        ELSE IF m.base = nullptr THEN UnmatchedLongFlag(m.nodes, i)
        ELSE IF IsValueFlagBase(m.base)
        THEN LongValueFlag(m.nodes, m.base, i, argchunk, separator)
        ELSE LongKickOut(m.nodes, m.base, i)

\* variant: the token is split at the last occurrence of the separator
LongFlagBody_LastSeparator(ns, i) ==
    LET argchunk  == substr(args[i], Len(longprefix))
        hits      == {k \in 0..(Len(argchunk) - Len(longseparator)) :
                         SubSeq(argchunk, k + 1, k + Len(longseparator)) = longseparator}
        separator == IF longseparator = <<>> \/ hits = {} THEN npos
                     ELSE CHOOSE k \in hits : \A j \in hits : j <= k
        arg       == IF separator # npos THEN head(argchunk, separator) ELSE argchunk
        m         == GroupMatch(ns, Root, arg, FALSE)
    IN  IF m.thrown # "none" THEN Throw(m.nodes, i, m.thrown)
        ELSE IF m.base = nullptr THEN UnmatchedLongFlag(m.nodes, i)
        ELSE IF IsValueFlagBase(m.base)
        THEN LongValueFlag(m.nodes, m.base, i, argchunk, separator)
        ELSE IF separator # npos THEN Throw(m.nodes, i, "ParseError")
        ELSE LongKickOut(m.nodes, m.base, i)

LongFlagBody(ns, i) ==
    LET argchunk  == substr(args[i], Len(longprefix))
        separator == IF longseparator = <<>> THEN npos ELSE find(argchunk, longseparator)
        arg       == IF separator # npos THEN head(argchunk, separator) ELSE argchunk
        m         == GroupMatch(ns, Root, arg, FALSE)
    IN  IF m.thrown # "none" THEN Throw(m.nodes, i, m.thrown)
        ELSE IF m.base = nullptr THEN UnmatchedLongFlag(m.nodes, i)
        ELSE IF IsValueFlagBase(m.base)
        THEN LongValueFlag(m.nodes, m.base, i, argchunk, separator)
        ELSE IF separator # npos THEN Throw(m.nodes, i, "ParseError")
        ELSE LongKickOut(m.nodes, m.base, i)

RECURSIVE ShortFlagLoop(_, _, _, _)

\* variant: the characters behind a joined value are matched as flags too
ShortValueFlag_NoBreak(ns, base, i, argchunk, argit) ==
    LET value == SubSeq(argchunk, argit + 1, Len(argchunk))
    IN  IF value # <<>>
        THEN IF allowJoinedShortValue
             THEN LET v == ParseValue(ns, base, value)
                  IN  IF v.thrown # "none" THEN Throw(v.nodes, i, v.thrown)
                      ELSE ShortFlagLoop(v.nodes, i, argchunk, argit + 1)
             ELSE Throw(ns, i, "ParseError")
        ELSE IF i + 1 = end THEN Throw(ns, i + 1, "ParseError")
        ELSE IF allowSeparateShortValue
             THEN LET v == ParseValue(ns, base, args[i + 1])
                  IN  IF v.thrown # "none" THEN Throw(v.nodes, i + 1, v.thrown)
                      ELSE Continue(v.nodes, i + 1)
             ELSE Throw(ns, i + 1, "ParseError")

\* variant: the joined short form asks the toggle of the joined long form
ShortValueFlag_LongToggle(ns, base, i, argchunk, argit) ==
    LET value == SubSeq(argchunk, argit + 1, Len(argchunk))
    IN  IF value # <<>>
        THEN IF allowJoinedLongValue
             THEN LET v == ParseValue(ns, base, value)
                  IN  IF v.thrown # "none" THEN Throw(v.nodes, i, v.thrown)
                      ELSE Continue(v.nodes, i)
             ELSE Throw(ns, i, "ParseError")
        ELSE IF i + 1 = end THEN Throw(ns, i + 1, "ParseError")
        ELSE IF allowSeparateShortValue
             THEN LET v == ParseValue(ns, base, args[i + 1])
                  IN  IF v.thrown # "none" THEN Throw(v.nodes, i + 1, v.thrown)
                      ELSE Continue(v.nodes, i + 1)
             ELSE Throw(ns, i + 1, "ParseError")

\* a character that matched a ValueFlagBase: its joined or separate value,
\* then the break out of the loop over the characters
ShortValueFlag(ns, base, i, argchunk, argit) ==
    LET value == SubSeq(argchunk, argit + 1, Len(argchunk))
    IN  IF value # <<>>
        THEN IF allowJoinedShortValue
             THEN LET v == ParseValue(ns, base, value)
                  IN  IF v.thrown # "none" THEN Throw(v.nodes, i, v.thrown)
                      ELSE Continue(v.nodes, i)
             ELSE Throw(ns, i, "ParseError")
        ELSE IF i + 1 = end THEN Throw(ns, i + 1, "ParseError")
        ELSE IF allowSeparateShortValue
             THEN LET v == ParseValue(ns, base, args[i + 1])
                  IN  IF v.thrown # "none" THEN Throw(v.nodes, i + 1, v.thrown)
                      ELSE Continue(v.nodes, i + 1)
             ELSE Throw(ns, i + 1, "ParseError")

\* variant: the unknown character is skipped and the scan goes on
UnmatchedShortFlag_Ignored(ns, i) == Continue(ns, i)

\* no flag of the tree matched the character
UnmatchedShortFlag(ns, i) == Throw(ns, i, "ParseError")

\* variant: a flag kicks out only as the last character of its cluster
RECURSIVE ShortFlagLoop_KickAtEndOnly(_, _, _, _)
ShortFlagLoop_KickAtEndOnly(ns, i, argchunk, argit) ==
    IF argit > Len(argchunk) THEN Continue(ns, i)
    ELSE
    LET arg == argchunk[argit]
        m   == GroupMatch(ns, Root, arg, TRUE)
    IN  IF m.thrown # "none" THEN Throw(m.nodes, i, m.thrown)
        ELSE IF m.base = nullptr THEN UnmatchedShortFlag(m.nodes, i)
        ELSE IF IsValueFlagBase(m.base)
        THEN ShortValueFlag(m.nodes, m.base, i, argchunk, argit)
        ELSE IF tree[m.base].kickout /\ argit = Len(argchunk) THEN ReturnNext(m.nodes, i)
        ELSE ShortFlagLoop_KickAtEndOnly(m.nodes, i, argchunk, argit + 1)

\* the loop over the characters of a short-flag chunk, from character argit
ShortFlagLoop(ns, i, argchunk, argit) ==
    IF argit > Len(argchunk) THEN Continue(ns, i)
    ELSE
    LET arg == argchunk[argit]
        m   == GroupMatch(ns, Root, arg, TRUE)
    IN  IF m.thrown # "none" THEN Throw(m.nodes, i, m.thrown)
        ELSE IF m.base = nullptr THEN UnmatchedShortFlag(m.nodes, i)
        ELSE IF IsValueFlagBase(m.base)
        THEN ShortValueFlag(m.nodes, m.base, i, argchunk, argit)
        ELSE IF tree[m.base].kickout THEN ReturnNext(m.nodes, i)
        ELSE ShortFlagLoop(m.nodes, i, argchunk, argit + 1)

ShortFlagBody(ns, i) == ShortFlagLoop(ns, i, substr(args[i], Len(shortprefix)), 1)

\* no positional of the tree is ready
NoReadyPositional(ns, i) == Throw(ns, i, "ParseError")

\* variant: a positional never kicks out
PositionalBody_NoKickOut(ns, i) ==
    LET pos == GetNextPositional(ns, Root)
    IN  IF pos # nullptr
        THEN LET v == ParseValue(ns, pos, args[i])
             IN  IF v.thrown # "none" THEN Throw(v.nodes, i, v.thrown)
                 ELSE Continue(v.nodes, i)
        ELSE NoReadyPositional(ns, i)

\* variant: a positional that kicks out has the groups validated first
PositionalBody_Validated(ns, i) ==
    LET pos == GetNextPositional(ns, Root)
    IN  IF pos # nullptr
        THEN LET v == ParseValue(ns, pos, args[i])
             IN  IF v.thrown # "none" THEN Throw(v.nodes, i, v.thrown)
                 ELSE IF tree[pos].kickout
                 THEN IF Matched(v.nodes, Root) THEN ReturnNext(v.nodes, i)
                      ELSE Throw(v.nodes, i, "ValidationError")
                 ELSE Continue(v.nodes, i)
        ELSE NoReadyPositional(ns, i)

PositionalBody(ns, i) ==
    LET pos == GetNextPositional(ns, Root)
    IN  IF pos # nullptr
        THEN LET v == ParseValue(ns, pos, args[i])
             IN  IF v.thrown # "none" THEN Throw(v.nodes, i, v.thrown)
                 ELSE IF tree[pos].kickout THEN ReturnNext(v.nodes, i)
                 ELSE Continue(v.nodes, i)
        ELSE NoReadyPositional(ns, i)

ArgSeqs(tokens) == UNION {[1..n -> tokens] : n \in 0..MaxArgs}

----------------------------------------------------------------------------
\* The state after construction

InitNodes(t) ==
    [n \in DOMAIN t |->
        [matched |-> FALSE, ready |-> TRUE, value |-> t[n].defaultValue,
         values |-> <<>>, count |-> t[n].startcount]]

\* a parser constructed over one of the named trees
InitOver(names) ==
    /\ declared \in names
    /\ tree = Trees[declared]
    /\ nodes = InitNodes(tree)
    /\ longprefix = <<"-", "-">>
    /\ shortprefix = <<"-">>
    /\ longseparator = <<"=">>
    /\ terminator = <<"-", "-">>
    /\ allowJoinedShortValue = TRUE
    /\ allowJoinedLongValue = TRUE
    /\ allowSeparateShortValue = TRUE
    /\ allowSeparateLongValue = TRUE
    /\ args = <<>>
    /\ it = 1
    /\ terminated = FALSE
    /\ pc = "idle"
    /\ error = "none"
    /\ ret = 0
    /\ calls = 0
    /\ previous = <<>>

Init == InitOver(TreeNames)

----------------------------------------------------------------------------
\* Operations

\* ArgumentParser::LongPrefix(const std::string &)
LongPrefix(prefix) ==
    /\ pc = "idle"
    /\ longprefix' = prefix
    /\ UNCHANGED <<declared, tree, nodes, shortprefix, longseparator, terminator,
                   allowJoinedShortValue, allowJoinedLongValue,
                   allowSeparateShortValue, allowSeparateLongValue,
                   args, it, terminated, pc, error, ret, calls, previous>>

SetArgumentSeparations(joinedShort, joinedLong, separateShort, separateLong) ==
    /\ pc = "idle"
    /\ allowJoinedShortValue' = joinedShort
    /\ allowJoinedLongValue' = joinedLong
    /\ allowSeparateShortValue' = separateShort
    /\ allowSeparateLongValue' = separateLong
    /\ UNCHANGED <<declared, tree, nodes, longprefix, shortprefix, longseparator, terminator,
                   args, it, terminated, pc, error, ret, calls, previous>>

\* ParseArgs up to its loop: ResetMatched(), terminated = false, it = begin
Enter ==
    /\ nodes' = ResetMatched(nodes, Root)
    /\ args' \in ArgSeqs(Tokens[declared])
    /\ it' = 1
    /\ terminated' = FALSE
    /\ pc' = "scan"
    /\ error' = "none"
    /\ ret' = 0
    /\ calls' = calls + 1
    /\ UNCHANGED <<declared, tree, config, previous>>

\* the first call on a constructed parser
ParseArgs == pc = "idle" /\ Enter

\* a further call on the same parser object, after the one before has
\* returned or thrown
ParseArgsAgain ==
    /\ pc \in {"done", "kicked", "error"}
    /\ calls < MaxCalls
    /\ Enter

\* where the running call began: std::begin(args), or the iterator the
\* parser before returned
begin == IF previous = <<>> THEN 1 ELSE previous[Len(previous)].ret

\* next = parser1.ParseArgs(args); parser2.ParseArgs(next, std::end(args)):
\* the host gives the rest of the tokens to the next, freshly constructed
\* parser, whose ResetMatched() finds nothing to clear
ParseArgsNext ==
    /\ pc = "kicked"
    /\ NextParser[declared] # ""
    /\ previous' = Append(previous, [declared |-> declared, nodes |-> nodes, ret |-> ret])
    /\ declared' = NextParser[declared]
    /\ tree' = Trees[declared']
    /\ nodes' = InitNodes(tree')
    /\ it' = ret
    /\ terminated' = FALSE
    /\ pc' = "scan"
    /\ error' = "none"
    /\ ret' = 0
    /\ calls' = 1
    /\ UNCHANGED <<config, args>>

\* next = parser.ParseArgs(args); twin.ParseArgs(std::begin(args), next): the
\* host gives the tokens before the returned position to a freshly
\* constructed parser with the same declarations on which KickOut(true) was
\* never called
ParseArgsCleared ==
    /\ pc = "kicked"
    /\ previous = <<>>
    /\ previous' = <<[declared |-> declared, nodes |-> nodes, ret |-> ret]>>
    /\ tree' = [n \in DOMAIN tree |-> [tree[n] EXCEPT !.kickout = FALSE]]
    /\ nodes' = InitNodes(tree')
    /\ args' = SubSeq(args, 1, ret - 1)
    /\ it' = 1
    /\ terminated' = FALSE
    /\ pc' = "scan"
    /\ error' = "none"
    /\ ret' = 0
    /\ calls' = 1
    /\ UNCHANGED <<declared, config>>

\* ParseCLI: return ParseArgs(args) == std::end(args), once the call returned
ParseCLI == ret = end

\* how an iteration of the loop leaves the call
Leave(r) ==
    /\ nodes' = r.nodes
    /\ it' = r.it
    /\ pc' = r.pc
    /\ error' = r.error
    /\ ret' = r.ret
    /\ UNCHANGED <<declared, tree, config, args, calls, previous>>

TerminatorChunk ==
    /\ pc = "scan"
    /\ it # end
    /\ IsTerminator
    /\ terminated' = TRUE
    /\ Leave(Continue(nodes, it))

LongFlagChunk ==
    /\ pc = "scan"
    /\ it # end
    /\ IsLongFlag
    /\ UNCHANGED terminated
    /\ Leave(LongFlagBody(nodes, it))

ShortFlagChunk ==
    /\ pc = "scan"
    /\ it # end
    /\ IsShortFlag
    /\ UNCHANGED terminated
    /\ Leave(ShortFlagBody(nodes, it))

PositionalChunk ==
    /\ pc = "scan"
    /\ it # end
    /\ IsPositional
    /\ UNCHANGED terminated
    /\ Leave(PositionalBody(nodes, it))

\* after the loop: group validation, then return end
Validate ==
    /\ pc = "scan"
    /\ it = end
    /\ IF ~Matched(nodes, Root)
       THEN pc' = "error" /\ error' = "ValidationError" /\ ret' = 0
       ELSE pc' = "done" /\ error' = "none" /\ ret' = end
    /\ UNCHANGED <<declared, tree, config, nodes, args, it, terminated, calls, previous>>

Next ==
    \/ ParseArgs
    \/ TerminatorChunk
    \/ LongFlagChunk
    \/ ShortFlagChunk
    \/ PositionalChunk
    \/ Validate

\* one ParseArgs call on a freshly constructed parser
Spec == Init /\ [][Next]_vars

\* the same, the host first choosing the allowed argument separations
InitSeparations == InitOver({"TreeValue"})

NextSeparations ==
    \/ \E js, jl, ss, sl \in BOOLEAN : SetArgumentSeparations(js, jl, ss, sl)
    \/ ParseArgs
    \/ TerminatorChunk
    \/ LongFlagChunk
    \/ ShortFlagChunk
    \/ PositionalChunk
    \/ Validate

SpecSeparations == InitSeparations /\ [][NextSeparations]_vars

\* one parser object given up to MaxCalls calls
InitReuse == InitOver(ReuseTreeNames)

NextReuse ==
    \/ ParseArgs
    \/ ParseArgsAgain
    \/ TerminatorChunk
    \/ LongFlagChunk
    \/ ShortFlagChunk
    \/ PositionalChunk
    \/ Validate

SpecReuse == InitReuse /\ [][NextReuse]_vars

\* parsers that kick out, each handing the rest of the tokens to the next
InitKickOut == InitOver(KickFirstNames)

NextKickOut ==
    \/ ParseArgs
    \/ ParseArgsNext
    \/ TerminatorChunk
    \/ LongFlagChunk
    \/ ShortFlagChunk
    \/ PositionalChunk
    \/ Validate

SpecKickOut == InitKickOut /\ [][NextKickOut]_vars

\* the steps of a running call: ParseArgs is synchronous, single-threaded
\* code, so a call that has been entered keeps running
Iteration ==
    \/ TerminatorChunk
    \/ LongFlagChunk
    \/ ShortFlagChunk
    \/ PositionalChunk
    \/ Validate

SpecRunning ==
    InitOver({"TreeRun", "TreeKickFoo"}) /\ [][NextKickOut]_vars /\ WF_vars(Iteration)

\* a parser that kicks out, then its twin without KickOut on the tokens the
\* first one consumed
SpecCleared ==
    InitOver(KickFirstNames \cup {"TreeChain2"})
    /\ [][ParseArgs \/ ParseArgsCleared \/ Iteration]_vars

\* one ParseArgs call, the host first choosing the long prefix: the empty
\* one of the dd style, or the default
SpecPrefix ==
    InitOver({"TreeDD"})
    /\ [][(\E prefix \in {<<>>, <<"-", "-">>} : LongPrefix(prefix)) \/ Next]_vars

\* one ParseArgs call on a parser whose nodes read an int
SpecInt == InitOver({"TreeInt"}) /\ [][Next]_vars

----------------------------------------------------------------------------
\* Vocabulary of the properties

\* the loop is about to run an iteration on args[it]
Scanning == pc = "scan" /\ it # end

FlagNodes == {n \in DOMAIN tree : IsFlagBase(n)}

PositionalNodes == {n \in DOMAIN tree : IsPositionalBase(n)}

GroupNodes == {n \in DOMAIN tree : IsGroup(n)}

\* the flags whose Matcher holds the character / the long name
FlagsOfShort(c) == {n \in FlagNodes : c \in tree[n].shortFlags}

FlagsOfLong(name) == {n \in FlagNodes : name \in tree[n].longFlags}

\* a flag that takes no value and whose match has no other effect on the scan
PlainFlag(n) ==
    /\ tree[n].kind \in {"Flag", "CounterFlag"}
    /\ ~tree[n].kickout
    /\ ~tree[n].extraError

\* the text of a token after a prefix
AfterPrefix(tok, prefix) == SubSeq(tok, Len(prefix) + 1, Len(tok))

\* the positions at which the long separator starts in a text (1-based)
SeparatorAt(text) ==
    {k \in 1..Len(text) :
        /\ k + Len(longseparator) - 1 <= Len(text)
        /\ SubSeq(text, k, k + Len(longseparator) - 1) = longseparator}

FirstSeparator(text) == CHOOSE k \in SeparatorAt(text) : \A j \in SeparatorAt(text) : k <= j

\* the name part of a long-flag token: up to the first separator
LongName(tok) ==
    LET text == AfterPrefix(tok, longprefix)
    IN  IF SeparatorAt(text) = {} THEN text ELSE SubSeq(text, 1, FirstSeparator(text) - 1)

\* character k of a short cluster is reached: every character before it
\* matches plain flags only
ClusterReaches(cluster, k) ==
    \A j \in 1..(k - 1) :
        /\ FlagsOfShort(cluster[j]) # {}
        /\ \A n \in FlagsOfShort(cluster[j]) : PlainFlag(n)

----------------------------------------------------------------------------
\* C1: a token classified as a long flag whose name no flag of the tree has,
\* or a short-flag cluster in which a character no flag of the tree has is
\* reached, makes ParseArgs raise ParseError in that iteration; no positional
\* receives the token.
C1_UnknownFlagCase ==
    /\ Scanning
    /\ \/ IsLongFlag /\ FlagsOfLong(LongName(chunk)) = {}
       \/ /\ IsShortFlag
          /\ \E k \in 1..Len(AfterPrefix(chunk, shortprefix)) :
                /\ FlagsOfShort(AfterPrefix(chunk, shortprefix)[k]) = {}
                /\ ClusterReaches(AfterPrefix(chunk, shortprefix), k)

C1_UnknownFlagRaisesParseError ==
    [][C1_UnknownFlagCase =>
          /\ pc' = "error"
          /\ error' = "ParseError"
          /\ \A n \in PositionalNodes : nodes'[n] = nodes[n]]_vars

\* an unknown character was reached behind a matched flag of the same cluster
C1_Witness ==
    /\ pc = "error"
    /\ error = "ParseError"
    /\ it # end
    /\ IsShortFlag
    /\ \E k \in 2..Len(AfterPrefix(chunk, shortprefix)) :
          /\ FlagsOfShort(AfterPrefix(chunk, shortprefix)[k]) = {}
          /\ ClusterReaches(AfterPrefix(chunk, shortprefix), k)
          /\ \A n \in FlagsOfShort(AfterPrefix(chunk, shortprefix)[1]) : nodes[n].matched
    /\ \E n \in PositionalNodes : nodes[n] = InitNodes(tree)[n]

----------------------------------------------------------------------------
\* C2: the built-in validators decide by the number of matched immediate
\* children (Xor: exactly one; AtLeastOne: at least one; AtMostOne: at most
\* one; All: all; AllOrNone: none or all; DontCare: always; CareTooMuch:
\* never), and a completed ParseArgs raises ValidationError when a group
\* directly under the parser fails and returns when all of them pass.
C2_Count(g) ==
    Cardinality({k \in 1..Len(tree[g].children) : Matched(nodes, tree[g].children[k])})

C2_Expected(g) ==
    CASE tree[g].validator = "Xor"         -> C2_Count(g) = 1
      [] tree[g].validator = "AtLeastOne"  -> C2_Count(g) >= 1
      [] tree[g].validator = "AtMostOne"   -> C2_Count(g) <= 1
      [] tree[g].validator = "All"         -> C2_Count(g) = Len(tree[g].children)
      [] tree[g].validator = "AllOrNone"   ->
            C2_Count(g) = 0 \/ C2_Count(g) = Len(tree[g].children)
      [] tree[g].validator = "DontCare"    -> TRUE
      [] tree[g].validator = "CareTooMuch" -> FALSE

C2_TopGroups == {g \in GroupNodes : \E k \in 1..Len(tree[Root].children) : tree[Root].children[k] = g}

C2_ValidatorsDecide ==
    /\ \A g \in GroupNodes \ {Root} : validator(nodes, g) <=> C2_Expected(g)
    /\ pc = "done" => \A g \in C2_TopGroups : C2_Expected(g)
    /\ (pc = "error" /\ error = "ValidationError") => \E g \in C2_TopGroups : ~C2_Expected(g)
    /\ (pc = "scan" /\ it = end /\ \E g \in C2_TopGroups : ~C2_Expected(g)) => ~Matched(nodes, Root)

\* ValidationError for an Xor group with two matched children, next to a
\* group that passes
C2_Witness ==
    /\ pc = "error"
    /\ error = "ValidationError"
    /\ \E g \in C2_TopGroups : tree[g].validator = "Xor" /\ C2_Count(g) = 2
    /\ \E g \in C2_TopGroups : tree[g].validator = "AllOrNone" /\ C2_Expected(g)

----------------------------------------------------------------------------
\* C3: a group's matched-children count is the number of its immediate
\* children that are matched, a leaf child by its own matched flag and a child
\* group exactly when that child's validator passes on the child's own count;
\* what lies below a child group enters only through that verdict.
RECURSIVE C3_Passes(_)

C3_Count(g) ==
    Cardinality({k \in 1..Len(tree[g].children) :
        LET c == tree[g].children[k]
        IN  IF IsGroup(c) THEN C3_Passes(c) ELSE nodes[c].matched})

C3_Passes(g) ==
    CASE tree[g].validator = "Xor"         -> C3_Count(g) = 1
      [] tree[g].validator = "AtLeastOne"  -> C3_Count(g) >= 1
      [] tree[g].validator = "AtMostOne"   -> C3_Count(g) <= 1
      [] tree[g].validator = "All"         -> C3_Count(g) = Len(tree[g].children)
      [] tree[g].validator = "AllOrNone"   ->
            C3_Count(g) = 0 \/ C3_Count(g) = Len(tree[g].children)
      [] tree[g].validator = "DontCare"    -> TRUE
      [] tree[g].validator = "CareTooMuch" -> FALSE
      [] tree[g].validator = "AllChildGroups" ->
            \A k \in 1..Len(tree[g].children) :
                IsGroup(tree[g].children[k]) => C3_Passes(tree[g].children[k])

C3_NestedGroupsCompose ==
    \A g \in GroupNodes :
        /\ MatchedChildren(nodes, g) = C3_Count(g)
        /\ Matched(nodes, g) <=> C3_Passes(g)

\* a group nested in a group
C3_Inner(g) == {c \in GroupNodes : \E k \in 1..Len(tree[g].children) : tree[g].children[k] = c}

C3_Leaves(g) == {c \in DOMAIN tree \ GroupNodes : \E k \in 1..Len(tree[g].children) : tree[g].children[k] = c}

\* the call returned with an Xor group whose only matched child is an
\* AllOrNone group with nothing matched below it
C3_Witness ==
    /\ pc = "done"
    /\ \E g \in GroupNodes \ {Root} :
          /\ tree[g].validator = "Xor"
          /\ MatchedChildren(nodes, g) = 1
          /\ \A c \in C3_Leaves(g) : ~nodes[c].matched
          /\ \E c \in C3_Inner(g) :
                /\ tree[c].validator = "AllOrNone"
                /\ \A d \in C3_Leaves(c) : ~nodes[d].matched
                /\ Matched(nodes, c)

----------------------------------------------------------------------------
\* C4 as stated: a call that returned left every group of the tree, at any
\* depth, passing its validator.
C4_Original == pc = "done" => \A g \in GroupNodes : C3_Passes(g)

\* C4: when the scan has reached the end, ParseArgs raises ValidationError
\* exactly when a group declared directly under the parser fails its
\* validator, and returns end otherwise; a group nested deeper may fail
\* while the call returns.
C4_RootAsksImmediateGroups ==
    [][(pc = "scan" /\ it = end) =>
          IF \E g \in C2_TopGroups : ~C3_Passes(g)
          THEN pc' = "error" /\ error' = "ValidationError"
          ELSE pc' = "done" /\ error' = "none" /\ ret' = end]_vars

\* the call returned although a group nested below a passing group fails
C4_Witness ==
    /\ pc = "done"
    /\ \E g \in C2_TopGroups : \E c \in C3_Inner(g) : C3_Passes(g) /\ ~C3_Passes(c)

----------------------------------------------------------------------------
\* Vocabulary of the value-flag properties

cluster == AfterPrefix(chunk, shortprefix)

\* character k of the short cluster is reached and belongs to one flag, a
\* ValueFlag
ShortValueAt(k, n) ==
    /\ Scanning
    /\ IsShortFlag
    /\ k \in 1..Len(cluster)
    /\ ClusterReaches(cluster, k)
    /\ FlagsOfShort(cluster[k]) = {n}
    /\ tree[n].kind = "ValueFlag"

\* the flags the characters before character k belong to
FlagsBefore(k) == UNION {FlagsOfShort(cluster[j]) : j \in 1..(k - 1)}

\* the chunk is a long flag whose name belongs to one flag, a ValueFlag
LongValueOf(n) ==
    /\ Scanning
    /\ IsLongFlag
    /\ FlagsOfLong(LongName(chunk)) = {n}
    /\ tree[n].kind = "ValueFlag"

longtext == AfterPrefix(chunk, longprefix)

\* the text joined to a long flag: what follows the first separator
JoinedText == SubSeq(longtext, FirstSeparator(longtext) + Len(longseparator), Len(longtext))

AllFormsAllowed ==
    /\ allowJoinedShortValue
    /\ allowJoinedLongValue
    /\ allowSeparateShortValue
    /\ allowSeparateLongValue

----------------------------------------------------------------------------
\* C5: a short cluster whose characters all belong to flags that take no
\* value matches the flag of every character and the scan goes on with the
\* next token; when a character reached in the cluster belongs to a value
\* flag and text follows it in the token, that text becomes the flag's value
\* and no flag other than those of the characters before it changes.
C5_ShortCluster ==
    [][(Scanning /\ IsShortFlag) =>
        /\ ClusterReaches(cluster, Len(cluster) + 1)
           => /\ pc' = "scan"
              /\ it' = it + 1
              /\ \A k \in 1..Len(cluster) : \E n \in FlagsOfShort(cluster[k]) : nodes'[n].matched
        /\ \A n \in FlagNodes : \A k \in 1..(Len(cluster) - 1) :
             (ShortValueAt(k, n) /\ allowJoinedShortValue)
             => /\ pc' = "scan"
                /\ it' = it + 1
                /\ nodes'[n].matched
                /\ nodes'[n].value = SubSeq(cluster, k + 1, Len(cluster))
                /\ \A m \in FlagNodes \ ({n} \cup FlagsBefore(k)) : nodes'[m] = nodes[m]]_vars

\* "-fb" with value flag f: f holds "b" and flag b is not matched
C5_Witness ==
    /\ pc = "scan"
    /\ it = 2
    /\ args[1] = <<"-", "f", "b">>
    /\ \E n \in FlagsOfShort("f") : tree[n].kind = "ValueFlag" /\ nodes[n].value = <<"b">>
    /\ \E n \in FlagsOfShort("b") : ~nodes[n].matched

----------------------------------------------------------------------------
\* C6: with every separation form allowed, a long value flag given as
\* prefix, name, separator and text in one token stores the text and the scan
\* goes on with the token that follows; given as prefix and name, with a
\* token following, it stores that token and the scan goes on behind it.
C6_LongValueForms ==
    [][\A n \in FlagNodes :
        (LongValueOf(n) /\ AllFormsAllowed) =>
            IF SeparatorAt(longtext) # {}
            THEN /\ nodes'[n].value = JoinedText
                 /\ nodes'[n].matched
                 /\ pc' = "scan"
                 /\ it' = it + 1
            ELSE it + 1 # end =>
                 /\ nodes'[n].value = args[it + 1]
                 /\ nodes'[n].matched
                 /\ pc' = "scan"
                 /\ it' = it + 2]_vars

\* the separate form took two tokens, the joined form that follows is next
C6_Witness ==
    /\ pc = "scan"
    /\ it = 3
    /\ Len(args) = 3
    /\ args[1] = <<"-", "-">> \o foo
    /\ args[2] = <<"b">>
    /\ LongValueOf(2)
    /\ SeparatorAt(longtext) # {}
    /\ JoinedText = args[2]
    /\ nodes[2].value = args[2]
    /\ \A p \in PositionalNodes : ~nodes[p].matched

----------------------------------------------------------------------------
\* C7: each of the four forms of giving a value flag its value is accepted
\* (the value is stored and the scan goes on) when its own toggle is true and
\* raises ParseError, leaving the flag's value as it was, when its own toggle
\* is false, whatever the other three toggles are; the toggles are those set
\* by SetArgumentSeparations before the call and do not change during it.
C7_Gated(allowed, n, text, consumed) ==
    IF allowed
    THEN /\ pc' = "scan"
         /\ it' = it + consumed
         /\ nodes'[n].value = text
    ELSE /\ pc' = "error"
         /\ error' = "ParseError"
         /\ nodes'[n].value = nodes[n].value

C7_TogglesGateTheirForm ==
    [][/\ pc # "idle" => UNCHANGED <<allowJoinedShortValue, allowJoinedLongValue,
                                      allowSeparateShortValue, allowSeparateLongValue>>
       /\ (Scanning /\ IsShortFlag) =>
            \A n \in FlagNodes : \A k \in 1..Len(cluster) :
                ShortValueAt(k, n) =>
                    IF k < Len(cluster)
                    THEN C7_Gated(allowJoinedShortValue, n, SubSeq(cluster, k + 1, Len(cluster)), 1)
                    ELSE it + 1 # end =>
                         C7_Gated(allowSeparateShortValue, n, args[it + 1], 2)
       /\ \A n \in FlagNodes :
            LongValueOf(n) =>
                IF SeparatorAt(longtext) # {}
                THEN C7_Gated(allowJoinedLongValue, n, JoinedText, 1)
                ELSE it + 1 # end =>
                     C7_Gated(allowSeparateLongValue, n, args[it + 1], 2)]_vars

\* a joined short value was refused with only its own toggle false, after a
\* separate long value had been accepted
C7_Witness ==
    /\ pc = "error"
    /\ error = "ParseError"
    /\ ~allowJoinedShortValue
    /\ allowJoinedLongValue /\ allowSeparateShortValue /\ allowSeparateLongValue
    /\ it = 3
    /\ args = << <<"-", "-">> \o foo, <<"-", "-">> \o bar, <<"-", "f", "b">> >>
    /\ nodes[2].value = args[2]

----------------------------------------------------------------------------
\* Vocabulary of the positional properties

IsList(n) == tree[n].kind \in {"PositionalList", "MapPositionalList"}

IsMapped(n) == tree[n].kind \in {"MapPositional", "MapPositionalList"}

\* the positionals in declaration order, depth-first through the groups
RECURSIVE DeclaredFrom(_, _)
DeclaredFrom(g, i) ==
    IF i > Len(tree[g].children) THEN <<>>
    ELSE LET c == tree[g].children[i]
         IN  (IF IsGroup(c) THEN DeclaredFrom(c, 1)
              ELSE IF IsPositionalBase(c) THEN <<c>>
              ELSE <<>>) \o DeclaredFrom(g, i + 1)

DeclaredPositionals == DeclaredFrom(Root, 1)

\* node n holds the token after the step: stored as it is, through the map
\* of a mapping node, last in the values of a list
Received(n, tok) ==
    LET stored == IF IsMapped(n) THEN tree[n].map[tok] ELSE tok
    IN  /\ nodes'[n].matched
        /\ IF IsList(n)
           THEN nodes'[n].values = Append(nodes[n].values, stored)
           ELSE nodes'[n].value = stored

----------------------------------------------------------------------------
\* C8: a token equal to the terminator met while not terminated sets
\* terminated and is stored nowhere; terminated then stays true while the
\* scan runs, and every token met while terminated, whatever it looks like,
\* changes no flag and goes to the next ready positional (ParseError when
\* there is none).
C8_TerminatorIsPermanent ==
    [][/\ (pc = "scan" /\ terminated) => terminated'
       /\ (Scanning /\ IsTerminator) =>
            /\ terminated'
            /\ nodes' = nodes
            /\ pc' = "scan"
            /\ it' = it + 1
       /\ (Scanning /\ terminated) =>
            /\ \A n \in FlagNodes : nodes'[n] = nodes[n]
            /\ LET pos == GetNextPositional(nodes, Root)
               IN  IF pos = nullptr
                   THEN pc' = "error" /\ error' = "ParseError"
                   ELSE IF IsMapped(pos) /\ chunk \notin DOMAIN tree[pos].map
                   THEN pc' = "error" /\ error' = "MapError"
                   ELSE pc' = "scan" /\ it' = it + 1 /\ Received(pos, chunk)]_vars

\* behind the terminator a second terminator and a long flag of the tree
\* were stored as positionals, the flag unmatched
C8_Witness ==
    /\ pc = "done"
    /\ terminated
    /\ args = << terminator, terminator, <<"-", "-">> \o bar >>
    /\ \E p \in PositionalNodes : nodes[p].values = <<args[2], args[3]>>
    /\ \A n \in FlagsOfLong(bar) : ~nodes[n].matched

----------------------------------------------------------------------------
\* C9: in one scan a Positional or MapPositional that has taken a value is
\* not returned by GetNextPositional and is not changed by any later step;
\* when every declared positional is such a node and has taken its value, a
\* further positional token raises ParseError.
C9_Consumed == {n \in PositionalNodes : ~IsList(n) /\ nodes[n].matched}

C9_PositionalTakesOneValue ==
    /\ [](pc = "scan" => GetNextPositional(nodes, Root) \notin C9_Consumed)
    /\ [][/\ pc = "scan" => \A n \in C9_Consumed : nodes'[n] = nodes[n]
           /\ (/\ Scanning
               /\ IsPositional
               /\ C9_Consumed = PositionalNodes)
              => pc' = "error" /\ error' = "ParseError"]_vars

\* a second positional token was refused, the first still in place
C9_Witness ==
    /\ pc = "error"
    /\ error = "ParseError"
    /\ it = 2
    /\ it # end
    /\ IsPositional
    /\ PositionalNodes # {}
    /\ C9_Consumed = PositionalNodes
    /\ \A n \in PositionalNodes : nodes[n].value = args[1]

----------------------------------------------------------------------------
\* C10: a positional token goes to the first node, in declaration order
\* depth-first, that is a list or has not taken a value; so the non-list
\* positionals before the first list fill in order, one token each, the first
\* list takes every token after them, and a positional declared behind a list
\* never changes.
C10_Open(k) == IsList(DeclaredPositionals[k]) \/ ~nodes[DeclaredPositionals[k]].matched

C10_DeclarationOrder ==
    /\ [](\A j, k \in 1..Len(DeclaredPositionals) :
            j < k =>
                /\ IsList(DeclaredPositionals[j])
                   => nodes[DeclaredPositionals[k]] = InitNodes(tree)[DeclaredPositionals[k]]
                /\ nodes[DeclaredPositionals[k]].matched => nodes[DeclaredPositionals[j]].matched)
    /\ [][(Scanning /\ IsPositional) =>
            \A k \in 1..Len(DeclaredPositionals) :
                (C10_Open(k) /\ \A j \in 1..(k - 1) : ~C10_Open(j)) =>
                    /\ \A j \in 1..Len(DeclaredPositionals) :
                          j # k => nodes'[DeclaredPositionals[j]] = nodes[DeclaredPositionals[j]]
                    /\ IF IsMapped(DeclaredPositionals[k])
                          /\ chunk \notin DOMAIN tree[DeclaredPositionals[k]].map
                       THEN pc' = "error" /\ error' = "MapError"
                       ELSE pc' = "scan" /\ Received(DeclaredPositionals[k], chunk)]_vars

\* three tokens over a Positional, a PositionalList and a Positional: the
\* first holds the first token, the list the other two, the last one nothing
C10_Witness ==
    /\ pc = "done"
    /\ Len(args) = 3
    /\ Len(DeclaredPositionals) = 3
    /\ ~IsList(DeclaredPositionals[1]) /\ nodes[DeclaredPositionals[1]].value = args[1]
    /\ IsList(DeclaredPositionals[2]) /\ nodes[DeclaredPositionals[2]].values = <<args[2], args[3]>>
    /\ ~nodes[DeclaredPositionals[3]].matched

----------------------------------------------------------------------------
\* Vocabulary of the properties about several calls on one parser

\* a step that enters ParseArgs
Entering == pc # "scan" /\ pc' = "scan"

\* the call has ended: it returned end, returned early, or threw
Ended == pc \in {"done", "kicked", "error"}

Leaves == DOMAIN tree \ GroupNodes

\* the tokens of the current call that the scan has looked at
Scanned == {k \in 1..Len(args) : IF pc = "scan" THEN k < it ELSE k <= it}

\* the token spells flag n: its long name behind the long prefix, or one of
\* its characters in a cluster behind the short prefix
Spells(tok, n) ==
    \/ /\ find(tok, longprefix) = 0
       /\ Len(tok) > Len(longprefix)
       /\ LongName(tok) \in tree[n].longFlags
    \/ /\ find(tok, shortprefix) = 0
       /\ \E j \in 1..Len(AfterPrefix(tok, shortprefix)) :
             AfterPrefix(tok, shortprefix)[j] \in tree[n].shortFlags

----------------------------------------------------------------------------
\* C11: the step that enters ParseArgs leaves every leaf of the tree, at any
\* depth, unmatched, whatever the call before did; so at any moment a flag is
\* matched only if a token the current call has scanned spells it.
C11_MatchedIsOfThisCall ==
    /\ [][Entering => \A n \in Leaves : ~nodes'[n].matched]_vars
    /\ [](pc # "idle" =>
            \A n \in FlagNodes :
                nodes[n].matched => \E k \in Scanned : Spells(args[k], n))

\* a second call has returned; the value flag inside the group holds a value
\* of the first call and is not matched, no token of the second spelling it
C11_Witness ==
    /\ calls = 2
    /\ pc = "done"
    /\ \E n \in FlagNodes :
          /\ \E g \in GroupNodes \ {Root} : n \in C3_Leaves(g)
          /\ nodes[n].value # tree[n].defaultValue
          /\ ~nodes[n].matched
          /\ \A k \in 1..Len(args) : ~Spells(args[k], n)
    /\ \E n \in FlagNodes : nodes[n].matched

----------------------------------------------------------------------------
----------------------------------------------------------------------------
\* Vocabulary of the properties about positionals over several calls

NonListPositionals == {n \in PositionalNodes : ~IsList(n)}

\* every Positional / MapPositional took a value in an earlier call: none of
\* them is ready, none is matched in the call that has just begun
ConsumedEarlier ==
    /\ NonListPositionals # {}
    /\ \A n \in NonListPositionals : ~nodes[n].ready

----------------------------------------------------------------------------
\* C13 as stated: in a later call on a parser whose non-list positionals each
\* took a value in an earlier call, the first token, being a positional
\* token, goes to the first declared non-list positional, which is matched
\* and holds it after the step.
C13_Original ==
    [][(/\ calls >= 2
        /\ Scanning
        /\ it = 1
        /\ IsPositional
        /\ ConsumedEarlier
        /\ ~IsList(DeclaredPositionals[1]))
       => /\ pc' = "scan"
          /\ Received(DeclaredPositionals[1], chunk)]_vars

\* the second call threw ParseError on its first token: no positional was
\* ready, the two positionals still hold the values of the first call
C13_Witness ==
    /\ calls = 2
    /\ pc = "error"
    /\ error = "ParseError"
    /\ it = 1
    /\ args[1] = <<"b">>
    /\ PositionalNodes = NonListPositionals
    /\ Len(DeclaredPositionals) = 2
    /\ nodes[DeclaredPositionals[1]].value = <<"a">>
    /\ nodes[DeclaredPositionals[2]].value = <<"b">>
    /\ \A n \in PositionalNodes : ~nodes[n].matched /\ ~nodes[n].ready

----------------------------------------------------------------------------
\* C14 as stated: when a later call on the parser has returned and all its
\* tokens were positional tokens, a positional list holds tokens of that call
\* only: its values are the last tokens of the call, in order.
PlainToken(tok) ==
    /\ tok # terminator
    /\ find(tok, longprefix) # 0
    /\ find(tok, shortprefix) # 0

C14_Original ==
    (/\ calls >= 2
     /\ pc = "done"
     /\ \A k \in 1..Len(args) : PlainToken(args[k]))
    => \A n \in PositionalNodes :
          IsList(n) =>
              \E k \in 1..(Len(args) + 1) : nodes[n].values = SubSeq(args, k, Len(args))

\* the second call has returned: the list holds the token the first call
\* gave it, followed by the only token of the second
C14_Witness ==
    /\ calls = 2
    /\ pc = "done"
    /\ args = << <<"b">> >>
    /\ \E n \in PositionalNodes : IsList(n) /\ nodes[n].values = << <<"a">>, <<"b">> >>

----------------------------------------------------------------------------
\* Vocabulary of the properties about kick-out

\* the tokens {"--foo", "green", "--bar"}
SubParserArgs == << <<"-", "-">> \o foo, green, <<"-", "-">> \o bar >>

\* the parser that ran first in the row and kicked out, as it was left
First == previous[1]

----------------------------------------------------------------------------
\* C15 as stated: KickOut is set on the flag foo of parser A.  Given
\* {"--foo", "green", "--bar"}, A returns the position of "--bar" with foo
\* and sub matched, and parser B, run from there, ends with bar matched.
C15_Original ==
    /\ (declared = "TreeKickFoo" /\ args = SubParserArgs /\ Ended) =>
          /\ pc = "kicked"
          /\ ret = 3
          /\ nodes[2].matched
          /\ nodes[4].matched
    /\ (declared = "TreeKickB" /\ previous # <<>> /\ First.declared = "TreeKickFoo"
          /\ args = SubParserArgs /\ Ended) =>
          /\ pc = "done"
          /\ nodes[3].matched

\* C15: KickOut is set on the positional sub of parser A, which also
\* declares the flags foo and bar.  Given {"--foo", "green", "--bar"}, A
\* consumes the tokens through "green", returns the position of "--bar" and
\* is left with foo and sub matched, sub holding the value mapped from
\* "green", and bar unmatched; parser B, run on the tokens from that
\* position, returns end with its bar matched and its foo unmatched.
C15_SubKicksOut ==
    /\ (declared = "TreeKickSub" /\ args = SubParserArgs /\ Ended) =>
          /\ pc = "kicked"
          /\ ret = 3
          /\ it = 3
          /\ nodes[2].matched
          /\ ~nodes[3].matched
          /\ nodes[4].matched
          /\ nodes[4].value = "green"
    /\ (declared = "TreeKickB" /\ previous # <<>> /\ First.declared = "TreeKickSub"
          /\ args = SubParserArgs) =>
          /\ First.ret = 3
          /\ First.nodes[2].matched
          /\ ~First.nodes[3].matched
          /\ First.nodes[4].matched
          /\ First.nodes[4].value = "green"
          /\ it >= 3
          /\ pc \in {"scan", "done"}
          /\ pc = "done" => (ret = end /\ nodes[3].matched /\ ~nodes[2].matched)

C15_Witness ==
    /\ declared = "TreeKickB"
    /\ previous # <<>>
    /\ First.declared = "TreeKickSub"
    /\ args = SubParserArgs
    /\ pc = "done"
    /\ nodes[3].matched
    /\ First.nodes[4].matched

----------------------------------------------------------------------------
\* the last token this iteration consumes in successfully matching node n,
\* 0 if it does not: a non-value flag named by the long-flag token or by a
\* reached character of the cluster, a value flag named by a long-flag token
\* that carries or is followed by its value, the first ready positional
\* offered a token it can convert
Consumes(n) ==
    IF ~Scanning THEN 0
    ELSE IF IsLongFlag
    THEN IF FlagsOfLong(LongName(chunk)) # {n} THEN 0
         ELSE IF tree[n].kind = "Flag"
         THEN IF SeparatorAt(longtext) = {} THEN it ELSE 0
         ELSE IF tree[n].kind = "ValueFlag"
         THEN IF SeparatorAt(longtext) # {} THEN it
              ELSE IF it + 1 <= Len(args) THEN it + 1 ELSE 0
         ELSE 0
    ELSE IF IsShortFlag
    THEN IF /\ tree[n].kind = "Flag"
            /\ \E k \in 1..Len(cluster) :
                  ClusterReaches(cluster, k) /\ FlagsOfShort(cluster[k]) = {n}
         THEN it ELSE 0
    ELSE IF IsPositional
    THEN IF /\ \E k \in 1..Len(DeclaredPositionals) :
                  /\ DeclaredPositionals[k] = n
                  /\ nodes[n].ready
                  /\ \A j \in 1..(k - 1) : ~nodes[DeclaredPositionals[j]].ready
            /\ IsMapped(n) => chunk \in DOMAIN tree[n].map
         THEN it ELSE 0
    ELSE 0

\* C16: an iteration that successfully matches a node with KickOut=true (a
\* non-value flag, a long value flag that receives its joined or separate
\* value, a positional that consumes its token) ends the call: ParseArgs
\* returns the position right after the last token that match consumed, the
\* node is matched and the nodes matched before stay matched.  The parser
\* examines no token after that: the only thing that follows is the host
\* running the next parser from the returned position over the same tokens,
\* the first parser left as it was.  Each parser of such a row starts where
\* the one before stopped, behind it, and never moves backwards, so the
\* parsers together process every token once.
C16_KickOutReturnsNextPosition ==
    /\ [][\A n \in DOMAIN tree :
             (tree[n].kickout /\ Consumes(n) # 0) =>
                /\ pc' = "kicked"
                /\ ret' = Consumes(n) + 1
                /\ it' = ret'
                /\ nodes'[n].matched
                /\ \A m \in Leaves : nodes[m].matched => nodes'[m].matched]_vars
    /\ [][pc = "kicked" =>
             /\ pc' = "scan"
             /\ it' = ret
             /\ args' = args
             /\ previous' = Append(previous, [declared |-> declared, nodes |-> nodes, ret |-> ret])]_vars
    /\ [][(pc = "scan" /\ pc' # "error") => (it' > it \/ (it = end /\ it' = it))]_vars
    /\ [](\A k \in 1..Len(previous) :
             /\ previous[k].ret > (IF k = 1 THEN 1 ELSE previous[k - 1].ret)
             /\ previous[k].ret <= end
             /\ it >= previous[k].ret)

\* three parsers in a row: a flag kicked out of the first, the value flag
\* given the following token kicked out of the second at the end of the
\* tokens, and the third returned end
C16_Witness ==
    /\ declared = "TreeChain3"
    /\ pc = "done"
    /\ Len(previous) = 2
    /\ previous[1].ret = 2
    /\ previous[1].nodes[4].matched
    /\ previous[2].ret = 4
    /\ previous[2].nodes[4].matched
    /\ previous[2].nodes[4].value = args[3]
    /\ ret = end

----------------------------------------------------------------------------
\* C17 as stated: a value flag with KickOut=true reached in a short cluster
\* stores its joined or separate value and ParseArgs returns the position
\* after the last token consumed, as it does after a long-flag match.
C17_Original ==
    [][\A n \in DOMAIN tree : \A k \in 1..MaxArgs + 1 :
          (/\ ShortValueAt(k, n)
           /\ tree[n].kickout
           /\ k = Len(cluster) => it + 1 <= Len(args)) =>
              /\ pc' = "kicked"
              /\ nodes'[n].matched
              /\ ret' = (IF k = Len(cluster) THEN it + 2 ELSE it + 1)]_vars

\* the value flag that kicks out was given its value through its short
\* identifier, and the same call went on to match the flag of the next
\* token and returned end
C17_Witness ==
    /\ declared = "TreeChain2"
    /\ Len(args) = 3
    /\ args[2] = <<"-", "B", "a">>
    /\ args[3] = <<"-", "a">>
    /\ pc = "done"
    /\ ret = end
    /\ tree[4].kickout
    /\ nodes[4].matched
    /\ nodes[4].value = <<"a">>
    /\ nodes[2].matched

----------------------------------------------------------------------------
\* C18: a call that ends by kick-out returns without the groups having been
\* validated.  An iteration that successfully matches a node with
\* KickOut=true returns and raises nothing, whatever the groups of the tree
\* say at that moment; a call that returned early carries no exception; and
\* ValidationError leaves a call only after its scan has reached the end of
\* the tokens.
C18_KickOutSkipsValidation ==
    /\ [][\A n \in DOMAIN tree :
             (tree[n].kickout /\ Consumes(n) # 0) =>
                /\ pc' = "kicked"
                /\ error' = "none"
                /\ ret' = it']_vars
    /\ [](pc = "kicked" => error = "none")
    /\ [](error = "ValidationError" => (pc = "error" /\ it = end))

\* the call returned early while the group that wants both its flags has
\* one of them only, so that the parser's validation fails
C18_Witness ==
    /\ declared = "TreeKickGroup"
    /\ pc = "kicked"
    /\ error = "none"
    /\ nodes[3].matched
    /\ ~nodes[4].matched
    /\ ~validator(nodes, 2)
    /\ ~Matched(nodes, Root)

----------------------------------------------------------------------------
\* C19 as stated: on a parser given the whole argument vector, ParseCLI
\* yields true exactly when the scan ran to the end of the tokens and was
\* not stopped by a kick-out; ParseArgs returns end for such a scan only.
C19_Original ==
    (previous = <<>> /\ pc \in {"done", "kicked"}) => (ParseCLI <=> pc = "done")

\* a kick-out on the last token: the early return yields end
C19_Witness ==
    /\ previous = <<>>
    /\ pc = "kicked"
    /\ Len(args) = 2
    /\ it = end
    /\ ParseCLI
    /\ \E n \in Leaves : tree[n].kickout /\ nodes[n].matched

----------------------------------------------------------------------------
\* the value texts this iteration hands to node n: the rest of the cluster
\* behind, or the token after, a reached character of a value flag; the
\* text joined to, or the token after, the long name of a value flag; the
\* chunk, for the first ready positional
Offered(n) ==
    IF ~Scanning THEN {}
    ELSE IF IsLongFlag
    THEN IF ~(IsValueFlagBase(n) /\ FlagsOfLong(LongName(chunk)) = {n}) THEN {}
         ELSE IF SeparatorAt(longtext) # {} THEN {JoinedText}
         ELSE IF it + 1 <= Len(args) THEN {args[it + 1]}
         ELSE {}
    ELSE IF IsShortFlag
    THEN IF ~IsValueFlagBase(n) THEN {}
         ELSE UNION {IF ~(ClusterReaches(cluster, k) /\ FlagsOfShort(cluster[k]) = {n}) THEN {}
                     ELSE IF k < Len(cluster) THEN {SubSeq(cluster, k + 1, Len(cluster))}
                     ELSE IF it + 1 <= Len(args) THEN {args[it + 1]}
                     ELSE {} : k \in 1..Len(cluster)}
    ELSE IF /\ IsPositional
            /\ \E k \in 1..Len(DeclaredPositionals) :
                  /\ DeclaredPositionals[k] = n
                  /\ nodes[n].ready
                  /\ \A j \in 1..(k - 1) : ~nodes[DeclaredPositionals[j]].ready
    THEN {chunk}
    ELSE {}

\* C20: when a MapFlag, MapFlagList, MapPositional or MapPositionalList is
\* handed a value text that is no key of its map, the call ends with the
\* exception MapError, which is not the plain ParseError, and the node holds
\* the value and the list it held before.
C20_MapMissRaisesMapError ==
    [][\A n \in DOMAIN tree : \A text \in Offered(n) :
          (/\ tree[n].kind \in {"MapFlag", "MapFlagList", "MapPositional", "MapPositionalList"}
           /\ text \notin DOMAIN tree[n].map) =>
              /\ pc' = "error"
              /\ error' = "MapError"
              /\ error' # "ParseError"
              /\ nodes'[n].value = nodes[n].value
              /\ nodes'[n].values = nodes[n].values]_vars

\* the map flag and the map flag list took a value each, then the map flag
\* was given a text its map lacks: both hold what they held
C20_Witness ==
    /\ declared = "TreeMaps"
    /\ args = << <<"-", "m", "a">>, <<"-", "l", "b">>, <<"-", "-", "m", "f", "=", "z">> >>
    /\ pc = "error"
    /\ error = "MapError"
    /\ it = 3
    /\ nodes[2].value = "red"
    /\ nodes[3].values = <<"green">>

----------------------------------------------------------------------------
\* C21: the iteration in which a HelpFlag is matched, by the long name of the
\* token or by a reached character of the short cluster, ends the call with
\* Help.  The iterator stays on that token, the only nodes the iteration
\* touches are the help flag and the flags of the characters before it, no
\* other exception (of a later character or token, or of group validation)
\* is raised, and nothing happens after the exception: an exception raised
\* by an earlier token stands.
C21_HelpStopsTheScan ==
    /\ [][\A n \in DOMAIN tree :
             (/\ Scanning
              /\ tree[n].kind = "HelpFlag"
              /\ \/ IsLongFlag /\ FlagsOfLong(LongName(chunk)) = {n}
                 \/ /\ IsShortFlag
                    /\ \E k \in 1..Len(cluster) :
                          ClusterReaches(cluster, k) /\ FlagsOfShort(cluster[k]) = {n}) =>
                /\ pc' = "error"
                /\ error' = "Help"
                /\ it' = it
                /\ nodes'[n].matched
                /\ \A m \in DOMAIN tree \ {n} :
                      nodes'[m] # nodes[m] =>
                         /\ IsShortFlag
                         /\ \E k \in 1..Len(cluster) :
                               /\ FlagsOfShort(cluster[k]) = {n}
                               /\ m \in FlagsBefore(k)]_vars
    /\ [][pc = "error" => (error' = error /\ nodes' = nodes /\ it' = it)]_vars
    /\ [](error = "Help" =>
             /\ pc = "error"
             /\ it # end
             /\ \E n \in FlagNodes : tree[n].kind = "HelpFlag" /\ Spells(args[it], n))

\* Help left the call at the second token, in the middle of its cluster:
\* the flag before it is matched, the unknown character behind it and the
\* unknown flag of the third token raised nothing, and the group that wants
\* its value flag fails without ValidationError
C21_Witness ==
    /\ declared = "TreeHelp"
    /\ args = << <<"-", "f">>, <<"-", "f", "h", "x">>, <<"-", "x">> >>
    /\ pc = "error"
    /\ error = "Help"
    /\ it = 2
    /\ nodes[2].matched
    /\ nodes[3].matched
    /\ ~Matched(nodes, Root)

----------------------------------------------------------------------------
\* C22: a token that names, by its long name or by a reached character of
\* its cluster, a flag constructed with extraError that is already matched
\* in this call ends the call with ExtraError, and the flag keeps its value;
\* the first such token of a call is matched without ExtraError, whatever the
\* calls before matched; a cluster of flags without extraError is matched
\* without error however often they were matched.
C22_SecondMatchRaisesExtraError ==
    [][/\ \A n \in DOMAIN tree :
            (/\ Scanning
             /\ tree[n].extraError
             /\ \/ IsLongFlag /\ FlagsOfLong(LongName(chunk)) = {n}
                \/ /\ IsShortFlag
                   /\ \E k \in 1..Len(cluster) :
                         ClusterReaches(cluster, k) /\ FlagsOfShort(cluster[k]) = {n}) =>
               IF nodes[n].matched
               THEN /\ pc' = "error"
                    /\ error' = "ExtraError"
                    /\ nodes'[n] = nodes[n]
               ELSE /\ error' # "ExtraError"
                    /\ nodes'[n].matched
       /\ (Scanning /\ IsShortFlag /\ ClusterReaches(cluster, Len(cluster) + 1)) =>
               /\ pc' = "scan"
               /\ error' = "none"
               /\ \A k \in 1..Len(cluster) : \A n \in FlagsOfShort(cluster[k]) :
                     nodes'[n].matched
       /\ Entering => \A n \in FlagNodes : ~nodes'[n].matched
       /\ (Scanning /\ it = 1 /\ IsLongFlag) => error' # "ExtraError"]_vars

\* the second call on the parser gave the value flag a first value and then
\* named it again: ExtraError, and the flag holds the first value
C22_Witness ==
    /\ declared = "TreeExtra"
    /\ calls = 2
    /\ args = << <<"-", "b", "a">>, <<"-", "-">> \o bar \o <<"=", "b">> >>
    /\ pc = "error"
    /\ error = "ExtraError"
    /\ it = 2
    /\ nodes[3].matched
    /\ nodes[3].value = <<"a">>

----------------------------------------------------------------------------
----------------------------------------------------------------------------
\* C24 as stated: a value-accepting flag reports matched only after a value
\* was assigned to it.  After a call that ended with an exception, a flag
\* that still holds its initial value and an empty list, having been
\* assigned nothing, is not matched.
C24_Original ==
    \A n \in FlagNodes :
        (/\ IsValueFlagBase(n)
         /\ pc = "error"
         /\ nodes[n].value = tree[n].defaultValue
         /\ nodes[n].values = <<>>) => ~nodes[n].matched

\* the long name of a value flag as the only token: ParseError for the
\* missing value, and the flag, which was assigned nothing, is matched
C24_Witness ==
    /\ declared = "TreeValue"
    /\ args = << <<"-", "-">> \o foo >>
    /\ pc = "error"
    /\ error = "ParseError"
    /\ \E n \in FlagsOfLong(foo) :
          /\ tree[n].kind = "ValueFlag"
          /\ nodes[n].matched
          /\ nodes[n].value = tree[n].defaultValue

----------------------------------------------------------------------------
\* C25: a CounterFlag starts at its start count; every iteration adds to it
\* the number of its occurrences in the token (one for its long name, one
\* for each reached character of a short cluster that is its character); it
\* is matched iff its count is above the start count.  So after a call whose
\* tokens are all clusters of the counter's character or its long name, the
\* count is the start count plus the number of all these occurrences, and a
\* counter named by no token holds its start count, unmatched.
C25_CounterCounts ==
    /\ [][\A n \in FlagNodes :
             (tree[n].kind = "CounterFlag" /\ Scanning) =>
                nodes'[n].count = nodes[n].count +
                   (IF IsLongFlag
                    THEN IF FlagsOfLong(LongName(chunk)) = {n} THEN 1 ELSE 0
                    ELSE IF IsShortFlag
                    THEN Cardinality({k \in 1..Len(cluster) :
                            ClusterReaches(cluster, k) /\ FlagsOfShort(cluster[k]) = {n}})
                    ELSE 0)]_vars
    /\ [](\A n \in FlagNodes :
             tree[n].kind = "CounterFlag" =>
                /\ pc = "idle" => nodes[n].count = tree[n].startcount
                /\ nodes[n].matched <=> nodes[n].count > tree[n].startcount
                /\ (\A k \in 1..Len(args) : ~Spells(args[k], n)) =>
                      nodes[n].count = tree[n].startcount)
    /\ []((/\ declared = "TreeCounter"
            /\ pc = "done"
            /\ \A k \in 1..Len(args) :
                  args[k] \in {<<"-", "f">>, <<"-", "f", "f">>, <<"-", "-">> \o foo}) =>
              nodes[2].count = tree[2].startcount
                 + Cardinality({k \in 1..Len(args) : args[k] = <<"-", "-">> \o foo})
                 + Cardinality({kj \in (1..Len(args)) \X (2..3) :
                        /\ args[kj[1]] \in {<<"-", "f">>, <<"-", "f", "f">>}
                        /\ kj[2] <= Len(args[kj[1]])}))

\* the counter was named by its long name, twice in one cluster and once in
\* front of a value flag: it holds 4; the other counter holds its 7
C25_Witness ==
    /\ declared = "TreeCounter"
    /\ args = << <<"-", "-">> \o foo, <<"-", "f", "f">>, <<"-", "f", "l", "a">> >>
    /\ pc = "done"
    /\ nodes[2].count = 4
    /\ nodes[2].matched
    /\ nodes[3].count = 7
    /\ ~nodes[3].matched

----------------------------------------------------------------------------
\* C26: a ValueFlagList starts empty, and an iteration that hands it a value
\* text (joined to or following its long name, behind or following its
\* character in a cluster) appends exactly that text at the end; any other
\* iteration leaves the list alone.  So after a call whose tokens each give
\* the list one value, in the joined long or the joined short form, the list
\* is the sequence of these values in token order.
C26_ListAppendsInTokenOrder ==
    /\ [][\A n \in FlagNodes :
             (tree[n].kind = "ValueFlagList" /\ Scanning) =>
                IF Offered(n) = {}
                THEN nodes'[n].values = nodes[n].values
                ELSE /\ \E text \in Offered(n) :
                          nodes'[n].values = Append(nodes[n].values, text)
                     /\ nodes'[n].matched
                     /\ pc' = "scan"]_vars
    /\ [](\A n \in FlagNodes :
             (tree[n].kind = "ValueFlagList" /\ pc = "idle") => nodes[n].values = <<>>)
    /\ []((/\ declared = "TreeCounter"
            /\ pc = "done"
            /\ \A k \in 1..Len(args) :
                  args[k] \in {<<"-", "-">> \o bar \o <<"=", "b">>, <<"-", "f", "l", "a">>}) =>
              nodes[4].values =
                 [k \in 1..Len(args) |->
                    IF args[k] = <<"-", "f", "l", "a">> THEN <<"a">> ELSE <<"b">>])

\* two values in two forms: behind the character in a cluster, and the
\* token after the long name
C26_Witness ==
    /\ declared = "TreeCounter"
    /\ Len(args) = 3
    /\ args[1] = <<"-", "f", "l", "a">>
    /\ args[2] = <<"-", "-">> \o bar
    /\ pc = "done"
    /\ nodes[4].matched
    /\ nodes[4].values = << <<"a">>, args[3] >>

----------------------------------------------------------------------------
\* C27 as stated: a long-flag token with a joined text whose name is that of
\* a flag taking no value (Flag, CounterFlag, HelpFlag) ends the call with
\* ParseError (ExtraError being a ParseError), and the text is stored nowhere.
C27_Original ==
    [][\A n \in FlagNodes :
          (/\ Scanning
           /\ IsLongFlag
           /\ SeparatorAt(longtext) # {}
           /\ FlagsOfLong(LongName(chunk)) = {n}
           /\ ~IsValueFlagBase(n)) =>
              /\ pc' = "error"
              /\ error' \in {"ParseError", "ExtraError"}
              /\ \A m \in Leaves :
                    /\ nodes'[m].value = nodes[m].value
                    /\ nodes'[m].values = nodes[m].values
                    /\ nodes'[m].ready = nodes[m].ready]_vars

\* C27: a long-flag token with a joined text whose name is that of a flag
\* taking no value ends the call: with Help when the flag is a HelpFlag,
\* with ParseError (ExtraError being a ParseError) otherwise.  The iterator
\* stays on the token, and the joined text is stored in no flag and handed
\* to no positional.
C27_InlineValueToPlainFlag ==
    [][\A n \in FlagNodes :
          (/\ Scanning
           /\ IsLongFlag
           /\ SeparatorAt(longtext) # {}
           /\ FlagsOfLong(LongName(chunk)) = {n}
           /\ ~IsValueFlagBase(n)) =>
              /\ pc' = "error"
              /\ it' = it
              /\ IF tree[n].kind = "HelpFlag"
                 THEN error' = "Help"
                 ELSE error' \in {"ParseError", "ExtraError"}
              /\ \A m \in Leaves :
                    /\ nodes'[m].value = nodes[m].value
                    /\ nodes'[m].values = nodes[m].values
                    /\ nodes'[m].ready = nodes[m].ready
                    /\ IsPositionalBase(m) => nodes'[m].matched = nodes[m].matched]_vars

\* "--bar=f" named the flag bar: ParseError, and the positional was given
\* nothing
C27_Witness ==
    /\ declared = "TreeFlags"
    /\ args = << <<"-", "-">> \o bar \o <<"=", "f">> >>
    /\ pc = "error"
    /\ error = "ParseError"
    /\ it = 1
    /\ \A m \in PositionalNodes : ~nodes[m].matched /\ nodes[m].ready

----------------------------------------------------------------------------
\* C28: when the last token names a value flag and carries no value for it
\* (the long name without a separator, or a cluster whose last character is
\* the flag's), the call ends with ParseError, whichever separations are
\* allowed, and the flag's value is the one it had.
C28_MissingValueAtEnd ==
    [][\A n \in FlagNodes :
          (/\ Scanning
           /\ it = Len(args)
           /\ \/ LongValueOf(n) /\ SeparatorAt(longtext) = {}
              \/ ShortValueAt(Len(cluster), n)) =>
              /\ pc' = "error"
              /\ error' = "ParseError"
              /\ ret' = 0
              /\ nodes'[n].value = nodes[n].value
              /\ nodes'[n].values = nodes[n].values]_vars

\* separate values are disallowed in both forms, and the cluster that is
\* the last token ends in the character of the value flag: ParseError
C28_Witness ==
    /\ ~allowSeparateShortValue
    /\ ~allowSeparateLongValue
    /\ Len(args) = 2
    /\ args[2] = <<"-", "b", "f">>
    /\ pc = "error"
    /\ error = "ParseError"
    /\ it = end
    /\ nodes[3].matched
    /\ nodes[2].value = tree[2].defaultValue

----------------------------------------------------------------------------
\* the flag that Group::Match returns for a long name or a character: of the
\* flags whose Matcher accepts it, the one declared first, the flags of a
\* nested group standing where the group stands (the empty set if none)
FirstDeclared(id, isShort) ==
    LET RECURSIVE From(_, _)
        From(g, i) ==
            IF i > Len(tree[g].children) THEN <<>>
            ELSE LET c == tree[g].children[i]
                 IN  (IF IsGroup(c) THEN From(c, 1)
                      ELSE IF IsFlagBase(c) THEN <<c>>
                      ELSE <<>>) \o From(g, i + 1)
        flags == From(Root, 1)
        accepts(k) == IF isShort THEN id \in tree[flags[k]].shortFlags
                                 ELSE id \in tree[flags[k]].longFlags
    IN  {flags[k] : k \in {m \in 1..Len(flags) :
                              accepts(m) /\ \A j \in 1..(m - 1) : ~accepts(j)}}

\* C29: of the flags whose Matcher accepts a long name or a character, the
\* one declared first, counting the flags of nested groups at the place of
\* their group and whatever the validators of the groups are, is the one a
\* token matches; an iteration marks no other flag, so a flag each of whose
\* identifiers is also an identifier of a flag declared before it is never
\* matched.
C29_FirstDeclaredFlagMatches ==
    /\ [][(Scanning /\ IsLongFlag /\ FirstDeclared(LongName(chunk), FALSE) # {}) =>
             \A n \in FlagNodes :
                IF n \in FirstDeclared(LongName(chunk), FALSE)
                THEN nodes'[n].matched
                ELSE nodes'[n].matched = nodes[n].matched]_vars
    /\ [][(Scanning /\ IsShortFlag /\ ClusterReaches(cluster, Len(cluster) + 1)) =>
             \A n \in FlagNodes :
                IF \E k \in 1..Len(cluster) : n \in FirstDeclared(cluster[k], TRUE)
                THEN nodes'[n].matched
                ELSE nodes'[n].matched = nodes[n].matched]_vars
    /\ [](\A n \in FlagNodes :
             (/\ \A c \in tree[n].shortFlags : FirstDeclared(c, TRUE) # {n}
              /\ \A name \in tree[n].longFlags : FirstDeclared(name, FALSE) # {n}) =>
                ~nodes[n].matched)

\* every identifier was passed: the flag inside the group whose validator
\* never passes and the flag before the group are matched, the two flags
\* declared after them under the same identifiers are not
C29_Witness ==
    /\ declared = "TreeShared"
    /\ args = << <<"-", "-">> \o foo, <<"-", "b", "a">>, <<"-", "-">> \o bar >>
    /\ pc = "scan"
    /\ it = end
    /\ FirstDeclared("b", TRUE) = {4}
    /\ FirstDeclared(foo, FALSE) = {2}
    /\ nodes[2].matched
    /\ nodes[4].matched
    /\ ~nodes[5].matched
    /\ ~nodes[6].matched
    /\ ~validator(nodes, 3)

----------------------------------------------------------------------------
\* C30: the rules are tried in the order terminator, long flag, short flag,
\* positional.  Before the terminator was seen, a token equal to the
\* terminator sets terminated and touches no node, although it begins with
\* both prefixes; any other token that begins with the long prefix and goes
\* on behind it is looked up by its long name (the flag declared first under
\* that name is matched and no other, ParseError if there is none), never
\* character by character; and a token that is a prefix and nothing else,
\* when it is not taken as the terminator, goes to the first ready
\* positional, ParseError if there is none.
C30_ClassificationOrder ==
    [][Scanning =>
         /\ (~terminated /\ chunk = terminator) =>
               /\ terminated'
               /\ nodes' = nodes
               /\ pc' = "scan"
               /\ it' = it + 1
         /\ (/\ ~terminated
             /\ chunk # terminator
             /\ Len(chunk) > Len(longprefix)
             /\ SubSeq(chunk, 1, Len(longprefix)) = longprefix
             /\ SubSeq(chunk, 1, Len(shortprefix)) = shortprefix) =>
               /\ ~terminated'
               /\ IF FirstDeclared(LongName(chunk), FALSE) = {}
                  THEN pc' = "error" /\ error' = "ParseError" /\ nodes' = nodes
                  ELSE \A n \in DOMAIN tree :
                          IF n \in FirstDeclared(LongName(chunk), FALSE)
                          THEN nodes'[n].matched
                          ELSE nodes'[n].matched = nodes[n].matched
         /\ (chunk = shortprefix \/ (terminated /\ chunk = longprefix)) =>
               LET open == {k \in 1..Len(DeclaredPositionals) :
                               nodes[DeclaredPositionals[k]].ready}
               IN  /\ terminated' = terminated
                   /\ \A n \in FlagNodes : nodes'[n] = nodes[n]
                   /\ IF open = {}
                      THEN pc' = "error" /\ error' = "ParseError" /\ nodes' = nodes
                      ELSE \E k \in open :
                              /\ \A j \in open : k <= j
                              /\ Received(DeclaredPositionals[k], chunk)]_vars

\* "--" was the terminator; behind it "--" and then "-" went to the
\* positional list, and no flag was touched
C30_Witness ==
    /\ declared = "TreeValue"
    /\ args = << <<"-", "-">>, <<"-", "-">>, <<"-">> >>
    /\ pc = "done"
    /\ terminated
    /\ nodes[4].values = << <<"-", "-">>, <<"-">> >>
    /\ ~nodes[2].matched
    /\ ~nodes[3].matched

----------------------------------------------------------------------------
\* C31: a long-flag token is split at the first occurrence of the long
\* separator only.  For every way of reading the text behind the prefix as a
\* name that holds no separator, the separator, and a rest: a name no flag
\* has raises ParseError; a name of one value flag stores the whole rest,
\* further separators included, and the scan goes on with the token that
\* follows, also when the rest is empty; a name of a flag that takes no
\* value raises ParseError, the rest being a present value.
C31_SplitAtFirstSeparator ==
    [][(Scanning /\ IsLongFlag /\ allowJoinedLongValue) =>
        \A k \in 0..(Len(longtext) - Len(longseparator)) :
            LET name == SubSeq(longtext, 1, k)
                rest == SubSeq(longtext, k + Len(longseparator) + 1, Len(longtext))
            IN  (/\ longtext = name \o longseparator \o rest
                 /\ \A j \in 0..(k - 1) :
                        SubSeq(longtext, j + 1, j + Len(longseparator)) # longseparator)
                =>
                /\ FlagsOfLong(name) = {} => (pc' = "error" /\ error' = "ParseError")
                /\ \A n \in FlagsOfLong(name) :
                     FlagsOfLong(name) = {n} =>
                        IF tree[n].kind = "ValueFlag"
                        THEN /\ nodes'[n].value = rest
                             /\ nodes'[n].matched
                             /\ pc' = "scan"
                             /\ it' = it + 1
                        ELSE tree[n].kind = "Flag" =>
                                (pc' = "error" /\ error' = "ParseError")]_vars

\* "--bar=a=b" stored "a=b", "--foo=" stored the empty text in place of the
\* declared default, and the token behind it went to the positional
C31_Witness ==
    /\ declared = "TreeSplit"
    /\ pc = "done"
    /\ args = << <<"-", "-">> \o bar \o <<"=", "a", "=", "b">>,
                 <<"-", "-">> \o foo \o <<"=">>, <<"a">> >>
    /\ nodes[2].value = <<"a", "=", "b">>
    /\ nodes[3].matched
    /\ nodes[3].value = <<>>
    /\ nodes[5].value = <<"a">>

----------------------------------------------------------------------------
\* C32: ValidationError is raised only by the step behind the last token, and
\* only out of a scan that no signal has left; that step is taken for an empty
\* token sequence too, and raises ValidationError exactly when the root is
\* not matched.  An iteration of the loop that ends the call with a signal
\* raises ParseError, MapError, ExtraError or Help, never ValidationError,
\* whatever the groups would say.
C32_ValidationComesLast ==
    [][/\ (error' = "ValidationError" /\ error # "ValidationError")
          => (pc = "scan" /\ it = end /\ error = "none" /\ ~Matched(nodes, Root))
       /\ (Scanning /\ pc' = "error")
          => error' \in {"ParseError", "MapError", "ExtraError", "Help"}
       /\ (pc = "scan" /\ it = end)
          => IF Matched(nodes, Root)
             THEN pc' = "done" /\ error' = "none"
             ELSE pc' = "error" /\ error' = "ValidationError"
       /\ pc \in {"done", "error"} => UNCHANGED error]_vars

\* the second -f raised ExtraError on the third token while the group that
\* wants exactly one of its flags had two
C32_Witness ==
    /\ declared = "TreeSignals"
    /\ pc = "error"
    /\ error = "ExtraError"
    /\ Len(args) = 3
    /\ it = 3
    /\ nodes[3].matched
    /\ nodes[6].matched
    /\ ~Matched(nodes, Root)

----------------------------------------------------------------------------
\* Vocabulary of the comparison with the twin parser

\* the twin is running, or has run
Twin == previous # <<>>

\* the nodes as the parser that kicked out left them
kicked == previous[1].nodes

\* the character of the cluster at which the first parser kicked out: the
\* first one whose flag has KickOut set in the declarations of that parser
KickAt ==
    LET at == {j \in 1..Len(cluster) :
                 \E n \in FirstDeclared(cluster[j], TRUE) : Trees[declared][n].kickout}
    IN  IF at = {} THEN 0 ELSE CHOOSE j \in at : \A k \in at : j <= k

\* the twin is about to scan, as a short cluster, the token in which the
\* first parser kicked out, and characters follow the one that kicked out
CutCluster ==
    /\ Twin
    /\ Scanning
    /\ it = Len(args)
    /\ IsShortFlag
    /\ KickAt # 0
    /\ KickAt < Len(cluster)

----------------------------------------------------------------------------
\* C33 as stated: once the twin has scanned the tokens before the returned
\* position, without an error out of its loop, its nodes are those the
\* parser that kicked out left.
C33_Original ==
    Twin =>
        /\ pc = "error" => error = "ValidationError"
        /\ (pc \in {"done", "error"} \/ (pc = "scan" /\ it = end)) => nodes = kicked

\* C33: the nodes after a kicked-out ParseArgs are those of the twin once it
\* has scanned the tokens before the returned position, and the twin's loop
\* raises nothing, unless the kick-out flag was matched inside a short-flag
\* cluster with characters following it.  In that case the first parser
\* has matched the flags of the cluster up to the character that kicked out
\* and nothing else of the token, while the twin goes on through the rest
\* of the cluster.
C33_KickOutCutsTheCluster ==
    [][/\ (Twin /\ Scanning /\ ~CutCluster) =>
            /\ pc' = "scan"
            /\ it' = end => nodes' = kicked
       /\ CutCluster =>
            /\ \A n \in DOMAIN tree :
                 kicked[n] =
                    [nodes[n] EXCEPT !.matched =
                        \/ nodes[n].matched
                        \/ \E j \in 1..KickAt : n \in FirstDeclared(cluster[j], TRUE)]
            /\ pc' = "scan" =>
                 \E n \in FirstDeclared(cluster[KickAt + 1], TRUE) :
                    nodes'[n].matched \/ nodes'[n].value # nodes[n].value]_vars

\* the twin has scanned "-a" and "--foo", the tokens the first parser
\* consumed before it kicked out on foo, and holds the same matches
C33_Witness ==
    /\ Twin
    /\ declared = "TreeChain1"
    /\ args = << <<"-", "a">>, <<"-", "-">> \o foo >>
    /\ pc = "scan"
    /\ it = end
    /\ nodes = kicked
    /\ nodes[2].matched
    /\ nodes[4].matched
    /\ Trees[declared][4].kickout
    /\ ~tree[4].kickout

----------------------------------------------------------------------------
\* C34: every ParseArgs call that has been entered ends, by returning a
\* position (no signal raised) or by raising one signal (no position
\* returned), which then stays the outcome of the call.  Every iteration of
\* the loop that does not raise moves the iterator forward, the iterator
\* never passes the end, a returned position lies between where the call
\* began and the end, and a value flag that is the last token raises
\* ParseError, the iterator at the end, instead of taking a token from
\* behind the end.
C34_CallsTerminateInBounds ==
    /\ [](pc = "scan" => <>(pc \in {"done", "kicked", "error"}))
    /\ [](it \in begin..end)
    /\ [](pc \in {"done", "kicked"} => (error = "none" /\ ret \in begin..end))
    /\ [](pc = "kicked" => ret > begin)
    /\ [](pc = "error" => (error # "none" /\ ret = 0))
    /\ [][/\ (Scanning /\ pc' # "error") => (it' > it /\ it' <= end)
          /\ (Scanning /\ pc' = "error") => it' \in it..end
          /\ pc \in {"done", "error"} => UNCHANGED <<pc, error, ret, it>>
          /\ (Scanning /\ it = Len(args)) =>
                \A n \in FlagNodes :
                    (\/ LongValueOf(n) /\ SeparatorAt(longtext) = {}
                     \/ ShortValueAt(Len(cluster), n))
                    => (pc' = "error" /\ error' = "ParseError" /\ it' = end)]_vars

\* the value flag met as the last of two tokens, by its character: ParseError
\* with the iterator at the end
C34_Witness ==
    /\ declared = "TreeRun"
    /\ Len(args) = 2
    /\ args[1] = <<"x">>
    /\ args[2] = <<"-", "v">>
    /\ pc = "error"
    /\ error = "ParseError"
    /\ it = end
    /\ ret = 0

----------------------------------------------------------------------------
\* C35: a value flag met without a joined text, by its long name or as the
\* last character of a cluster, with a token following and the separate
\* form allowed, stores that token as it is, whatever it looks like, and
\* the scan goes on behind it: terminated keeps its value, no positional and
\* no flag other than those of the cluster's earlier characters changes.
C35_SeparateValueIsVerbatim ==
    [][\A n \in FlagNodes :
        /\ (LongValueOf(n) /\ SeparatorAt(longtext) = {} /\ it + 1 # end
                /\ allowSeparateLongValue)
            => /\ nodes'[n].value = args[it + 1]
               /\ pc' = "scan"
               /\ it' = it + 2
               /\ terminated' = terminated
               /\ \A m \in DOMAIN tree \ {n} : nodes'[m] = nodes[m]
        /\ (ShortValueAt(Len(cluster), n) /\ it + 1 # end /\ allowSeparateShortValue)
            => /\ nodes'[n].value = args[it + 1]
               /\ pc' = "scan"
               /\ it' = it + 2
               /\ terminated' = terminated
               /\ \A m \in DOMAIN tree \ ({n} \cup FlagsBefore(Len(cluster))) :
                     nodes'[m] = nodes[m]]_vars

\* "--foo" took the terminator as its value: the scan is not terminated,
\* so the "--bar" behind it was matched as a flag and no positional has
\* received anything
C35_Witness ==
    /\ declared = "TreeValue"
    /\ args = << <<"-", "-">> \o foo, <<"-", "-">>, <<"-", "-">> \o bar >>
    /\ pc = "done"
    /\ ~terminated
    /\ nodes[2].value = terminator
    /\ nodes[3].matched
    /\ \A p \in PositionalNodes : ~nodes[p].matched /\ nodes[p].values = <<>>

----------------------------------------------------------------------------
\* C36: when a character reached in a short-flag cluster belongs to a flag
\* that takes no value and has KickOut set, and characters follow it in the
\* token, ParseArgs returns the position of the next token: the flags of
\* the characters up to that one are matched and nothing else changes,
\* whatever the remaining characters are; the parser given the returned
\* position starts at that token, so no parser is offered the rest of the
\* cluster.
C36_RestOfClusterIsLost ==
    /\ [](it >= begin)
    /\ [][/\ (/\ Scanning
               /\ IsShortFlag
               /\ KickAt # 0
               /\ KickAt < Len(cluster)
               /\ ClusterReaches(cluster, KickAt)
               /\ \E n \in FirstDeclared(cluster[KickAt], TRUE) : tree[n].kind = "Flag")
             => /\ pc' = "kicked"
                /\ ret' = it + 1
                /\ \A n \in DOMAIN tree :
                     nodes'[n] =
                        [nodes[n] EXCEPT !.matched =
                            \/ nodes[n].matched
                            \/ \E j \in 1..KickAt : n \in FirstDeclared(cluster[j], TRUE)]
          /\ (pc = "kicked" /\ pc' = "scan") => (it' = ret /\ args' = args)]_vars

\* the first parser kicked out on the f of "-fa"; the second parser, which
\* declares a flag a, was handed no token and ran to the end with nothing
\* matched, as the first parser left its own flag a
C36_Witness ==
    /\ previous # <<>>
    /\ previous[1].declared = "TreeChain1"
    /\ args = << <<"-", "f", "a">> >>
    /\ previous[1].ret = 2
    /\ previous[1].nodes[4].matched
    /\ ~previous[1].nodes[2].matched
    /\ declared = "TreeChain2"
    /\ pc = "done"
    /\ "a" \in tree[2].shortFlags
    /\ \A n \in FlagNodes : ~nodes[n].matched

----------------------------------------------------------------------------
\* the Reader of node n signals ParseError for the text: the node reads an
\* int and the text holds a character that is no digit
Unreadable(n, text) ==
    /\ tree[n].T = "int"
    /\ \E j \in 1..Len(text) : text[j] \notin {"0", "1", "2"}

\* C37 as stated: a positional that takes one value, handed a token, becomes
\* not ready and matched when the token is stored; when its Reader signals
\* ParseError for the token, or its map lacks it, the call ends with an
\* error and the positional is ready, unmatched and holds the value it held
\* before.
C37_Original ==
    [][\A n \in PositionalNodes : \A text \in Offered(n) :
        ~IsList(n) =>
            IF Unreadable(n, text) \/ (IsMapped(n) /\ text \notin DOMAIN tree[n].map)
            THEN /\ pc' = "error"
                 /\ nodes'[n].ready
                 /\ ~nodes'[n].matched
                 /\ nodes'[n].value = nodes[n].value
            ELSE /\ pc' # "error"
                 /\ ~nodes'[n].ready
                 /\ nodes'[n].matched]_vars

\* "1x" was handed to the positional that reads an int and was constructed
\* with the default 7: ParseError, the positional ready and unmatched, and
\* holding 1
C37_Witness ==
    /\ declared = "TreeInt"
    /\ args = << <<"1", "x">> >>
    /\ pc = "error"
    /\ error = "ParseError"
    /\ tree[4].kind = "Positional"
    /\ tree[4].defaultValue = 7
    /\ nodes[4].ready
    /\ ~nodes[4].matched
    /\ nodes[4].value = 1

----------------------------------------------------------------------------
\* C38 as stated: when the Reader of a node signals ParseError for the text
\* the node is handed, the call ends with ParseError and the node holds the
\* value, and the list of values, it held before the token.
C38_Original ==
    [][\A n \in DOMAIN tree : \A text \in Offered(n) :
        Unreadable(n, text) =>
            /\ pc' = "error"
            /\ error' = "ParseError"
            /\ nodes'[n].value = nodes[n].value
            /\ nodes'[n].values = nodes[n].values]_vars

\* "-i1x" was given to the value flag that reads an int after "-i2" had
\* been stored: ParseError, and the flag holds 1, neither the 2 it held
\* nor the default 7
C38_Witness ==
    /\ declared = "TreeInt"
    /\ args = << <<"-", "i", "2">>, <<"-", "i", "1", "x">> >>
    /\ pc = "error"
    /\ error = "ParseError"
    /\ it = 2
    /\ tree[2].kind = "ValueFlag"
    /\ tree[2].defaultValue = 7
    /\ nodes[2].value = 1

----------------------------------------------------------------------------
\* C39: with the empty long prefix no token is scanned as a short-flag
\* cluster, and a token that is not empty, met while not terminated and not
\* the terminator itself, is scanned as a long flag: it changes no
\* positional, and raises ParseError when no flag has its name part.  A
\* token that is not empty changes a positional only when terminated.
C39_EmptyLongPrefix ==
    [][(Scanning /\ longprefix = <<>>) =>
        /\ ~IsShortFlag
        /\ (~terminated /\ chunk # <<>> /\ chunk # terminator) =>
              /\ IsLongFlag
              /\ ~IsPositional
              /\ \A p \in PositionalNodes : nodes'[p] = nodes[p]
              /\ FlagsOfLong(LongName(chunk)) = {} =>
                    (pc' = "error" /\ error' = "ParseError")
        /\ (chunk # <<>> /\ \E p \in PositionalNodes : nodes'[p] # nodes[p]) =>
              (terminated /\ IsPositional)]_vars

\* dd style: "b" before the terminator matched the flag b, "-b" behind the
\* terminator went to the positional
C39_Witness ==
    /\ declared = "TreeDD"
    /\ longprefix = <<>>
    /\ args = << <<"b">>, <<"-", "-">>, <<"-", "b">> >>
    /\ pc = "done"
    /\ terminated
    /\ nodes[3].matched
    /\ nodes[4].value = <<"-", "b">>
====
